---- MODULE Spec2Model ----
(***************************************************************************)
(* Model of the P2P-CI file sharing network: the wire protocol helpers of  *)
(* shared/protocol.py, the index server of server/server.py (RFCIndex and  *)
(* the per-connection handle_client loop), and of a peer the directory     *)
(* client, the download and the sync of peer/client.py and the upload      *)
(* handler of peer/upload_server.py.                                       *)
(*                                                                         *)
(* Text is modelled as a sequence of tokens.  A token is an indivisible    *)
(* word (a TLA+ string without blank, colon or line break) or one of the   *)
(* three separators SP, COLON and CRLF.  A Python str is such a sequence;  *)
(* the empty str is << >>.                                                 *)
(***************************************************************************)
EXTENDS Integers, Sequences, FiniteSets, TLC

(***************************************************************************)
(* Bounds of the model.                                                    *)
(***************************************************************************)
\* connections the server accepts
NumConns == 2
\* requests received on all connections together
MaxRequests == 2
\* calls of add before the LIST ALL of SpecList
MaxAdds == 3
\* files in the local store when sync_local_rfcs runs
MaxFiles == 2
\* candidate locations given to download_from_peers
MaxPeers == 2
\* calls a CentralServerClient makes: three let a call follow a failed call
\* that followed a successful one
MaxCalls == 3

\* entries in the body of a 200 that lookup_rfc or list_index receives
MaxEntries == 3


\* connections an accept loop hands to threads
MaxAccepts == 2


\* headers of a message that is encoded and decoded again
MaxHeaders == 2


(***************************************************************************)
(* Tokens and Python's str helpers.                                        *)
(***************************************************************************)
CRLF == "\r\n"
SP == " "
COLON == ":"
PROTOCOL_VERSION == "P2P-CI/1.0"

ProtocolError == "ProtocolError"

\* Optional[T]: << >> is None, <<v>> is the value v
None == <<>>
Some(v) == <<v>>

Str(w) == <<w>>

RECURSIVE Join(_, _)
Join(parts, sep) ==
    IF parts = <<>> THEN <<>>
    ELSE IF Len(parts) = 1 THEN parts[1]
    ELSE parts[1] \o sep \o Join(Tail(parts), sep)

\* index of the first position i with s[i..i+Len(sub)-1] = sub, 0 if none
RECURSIVE FindFrom(_, _, _)
FindFrom(s, sub, i) ==
    IF i + Len(sub) - 1 > Len(s) THEN 0
    ELSE IF SubSeq(s, i, i + Len(sub) - 1) = sub THEN i
    ELSE FindFrom(s, sub, i + 1)

Find(s, sub) == FindFrom(s, sub, 1)

Contains(s, sub) == Find(s, sub) # 0

\* str.split(sep): the pieces between the occurrences of sep
RECURSIVE Split(_, _)
Split(s, sep) ==
    LET i == Find(s, sep) IN
    IF i = 0 THEN <<s>>
    ELSE <<SubSeq(s, 1, i - 1)>> \o Split(SubSeq(s, i + Len(sep), Len(s)), sep)

\* str.split(sep, 1): at most one split, at the first occurrence
Split1(s, sep) ==
    LET i == Find(s, sep) IN
    IF i = 0 THEN <<s>>
    ELSE <<SubSeq(s, 1, i - 1), SubSeq(s, i + Len(sep), Len(s))>>

\* str.partition(sep): <<before, after>> of the first occurrence
Partition(s, sep) ==
    LET i == Find(s, sep) IN
    IF i = 0 THEN <<s, <<>>>>
    ELSE <<SubSeq(s, 1, i - 1), SubSeq(s, i + Len(sep), Len(s))>>

RECURSIVE LStrip(_)
LStrip(s) ==
    IF s # <<>> /\ Head(s) \in {SP, CRLF} THEN LStrip(Tail(s)) ELSE s

RECURSIVE RStrip(_)
RStrip(s) ==
    IF s # <<>> /\ s[Len(s)] \in {SP, CRLF} THEN RStrip(SubSeq(s, 1, Len(s) - 1)) ELSE s

Strip(s) == LStrip(RStrip(s))

\* str.split(): the maximal runs of non-blank tokens
RECURSIVE Words(_)
Words(s) ==
    LET t == LStrip(s) IN
    IF t = <<>> THEN <<>>
    ELSE LET sp == Find(t, <<SP>>)
             nl == Find(t, <<CRLF>>)
             e == IF sp = 0 THEN nl ELSE IF nl = 0 THEN sp ELSE IF sp < nl THEN sp ELSE nl
         IN IF e = 0 THEN <<t>>
            ELSE <<SubSeq(t, 1, e - 1)>> \o Words(SubSeq(t, e, Len(t)))

\* int(str) for the literals the model's messages use; None stands for ValueError
IntLiteral == [w \in {"-1", "0", "1", "2", "3", "4", "5", "6", "7", "07", "22", "200", "400",
                       "404", "500", "505"} |->
                 CASE w = "-1" -> -1 [] w = "0" -> 0 [] w = "1" -> 1 [] w = "2" -> 2
                   [] w = "3" -> 3 [] w = "4" -> 4 [] w = "5" -> 5 [] w = "6" -> 6
                   [] w = "7" -> 7 [] w = "07" -> 7 [] w = "22" -> 22
                   [] w = "200" -> 200 [] w = "400" -> 400 [] w = "404" -> 404
                   [] w = "500" -> 500 [] w = "505" -> 505]

ParseInt(s) ==
    LET t == Strip(s) IN
    IF Len(t) = 1 /\ t[1] \in DOMAIN IntLiteral THEN Some(IntLiteral[t[1]]) ELSE None

\* f"{n}" of an int
FormatInt(n) == Str(ToString(n))

(***************************************************************************)
(* A Python dict: a sequence of <<key, value>> pairs with distinct keys in *)
(* insertion order.                                                        *)
(***************************************************************************)
DictKeys(d) == {d[i][1] : i \in 1..Len(d)}

DictHas(d, k) == k \in DictKeys(d)

\* d.get(k): an Optional
DictGet(d, k) ==
    IF DictHas(d, k) THEN Some(d[CHOOSE i \in 1..Len(d) : d[i][1] = k][2]) ELSE None

\* d[k] = v: an existing key keeps its position
DictSet(d, k, v) ==
    IF DictHas(d, k)
    THEN LET i == CHOOSE j \in 1..Len(d) : d[j][1] = k
         IN SubSeq(d, 1, i - 1) \o <<<<k, v>>>> \o SubSeq(d, i + 1, Len(d))
    ELSE Append(d, <<k, v>>)

\* del d[k]
DictDel(d, k) == SelectSeq(d, LAMBDA kv : kv[1] # k)

DictValues(d) == [i \in 1..Len(d) |-> d[i][2]]

(***************************************************************************)
(* shared/protocol.py                                                      *)
(***************************************************************************)
HeaderLine(kv) == kv[1] \o <<COLON, SP>> \o kv[2]

\* a changed encoder: no empty line between the headers and the body
_serialiseWithoutBlank(start_line, headers, body) ==
    Join(<<start_line>> \o [i \in 1..Len(headers) |-> HeaderLine(headers[i])]
           \o <<body>>, <<CRLF>>)

_serialise(start_line, headers, body) ==
    Join(<<start_line>> \o [i \in 1..Len(headers) |-> HeaderLine(headers[i])]
           \o <<<<>>, body>>, <<CRLF>>)

build_request(method, resource, headers, body) ==
    _serialise(method \o <<SP>> \o resource \o <<SP, PROTOCOL_VERSION>>, headers, body)

RECURSIVE ParseHeaderLines(_, _)
ParseHeaderLines(lines, headers) ==
    IF lines = <<>> THEN headers
    ELSE LET line == Head(lines) IN
         IF line = <<>> THEN ParseHeaderLines(Tail(lines), headers)
         ELSE IF ~Contains(line, <<COLON>>) THEN ProtocolError
         ELSE LET kv == Split1(line, <<COLON>>) IN
              ParseHeaderLines(Tail(lines), DictSet(headers, Strip(kv[1]), Strip(kv[2])))

\* <<start_line, headers, body>>, or ProtocolError
parse_message(raw) ==
    IF ~Contains(raw, <<CRLF>>) THEN ProtocolError
    ELSE LET hb == Partition(raw, <<CRLF, CRLF>>)
             lines == Split(hb[1], <<CRLF>>)
             headers == ParseHeaderLines(Tail(lines), <<>>)
         IN IF headers = ProtocolError THEN ProtocolError
            ELSE <<lines[1], headers, hb[2]>>

\* <<method, resource, version>>, or ProtocolError
parse_request_line(line) ==
    LET tokens == Words(line) IN
    IF Len(tokens) < 3 THEN ProtocolError
    ELSE LET resource == Join(SubSeq(tokens, 2, Len(tokens) - 1), <<SP>>) IN
         IF resource = <<>> THEN ProtocolError
         ELSE <<tokens[1], resource, tokens[Len(tokens)]>>

parse_status_line(line) ==
    LET tokens == Words(line) IN
    IF Len(tokens) < 3 THEN ProtocolError
    ELSE IF ParseInt(tokens[2]) = None THEN ProtocolError
    ELSE <<tokens[1], ParseInt(tokens[2])[1], Join(SubSeq(tokens, 3, Len(tokens)), <<SP>>)>>

(***************************************************************************)
(* server/server.py: pure helpers                                          *)
(***************************************************************************)
RFCRecord(number, title, host, port) ==
    [number |-> number, title |-> title, host |-> host, port |-> port]

FormatEntry(entry) ==
    <<"RFC", SP>> \o FormatInt(entry.number) \o <<SP>> \o entry.title \o <<SP>>
        \o entry.host \o <<SP>> \o FormatInt(entry.port)

format_entries(entries) ==
    Join([i \in 1..Len(entries) |-> FormatEntry(entries[i])], <<CRLF>>)

\* the message send_response writes to the connection
send_response(status, phrase, body) ==
    Join(<<<<PROTOCOL_VERSION, SP>> \o FormatInt(status) \o <<SP>> \o phrase>>
           \o (IF body # <<>> THEN <<<<>>, body>> ELSE <<>>), <<CRLF>>)
        \o <<CRLF, CRLF>>

parse_rfc_resource(resource) ==
    LET parts == Words(resource) IN
    IF Len(parts) # 2 \/ parts[1] # Str("RFC") THEN None ELSE ParseInt(parts[2])

BadRequest == send_response(400, <<"Bad", SP, "Request">>, <<>>)
NotFound == send_response(404, <<"Not", SP, "Found">>, <<>>)
VersionNotSupported ==
    send_response(505, <<"P2P-CI", SP, "Version", SP, "Not", SP, "Supported">>, <<>>)
OK(body) == send_response(200, <<"OK">>, body)

\* str < str, by code point; the hosts of the model are single letters or empty
CodePoint == [w \in {"a", "b"} |-> IF w = "a" THEN 97 ELSE 98]

RECURSIVE StrLess(_, _)
StrLess(s, t) ==
    IF t = <<>> THEN FALSE
    ELSE IF s = <<>> THEN TRUE
    ELSE IF Head(s) = Head(t) THEN StrLess(Tail(s), Tail(t))
    ELSE CodePoint[Head(s)] < CodePoint[Head(t)]

\* (host, port) < (host, port), the key list_all sorts the records of one RFC by
HostPortLess(a, b) ==
    StrLess(a.host, b.host) \/ (a.host = b.host /\ a.port < b.port)

\* a changed list_all: the records of an RFC in the order the dict holds them
InsertionOrder(recs) == recs

\* sorted(values, key=...): stable
RECURSIVE SortedByHostPort(_)
SortedByHostPort(recs) ==
    IF recs = <<>> THEN <<>>
    ELSE LET rest == SortedByHostPort(SubSeq(recs, 1, Len(recs) - 1))
             r == recs[Len(recs)]
             k == Cardinality({i \in 1..Len(rest) : ~HostPortLess(r, rest[i])})
         IN SubSeq(rest, 1, k) \o <<r>> \o SubSeq(rest, k + 1, Len(rest))

\* sorted(self._records): the RFC numbers ascending
RECURSIVE SortedNumbers(_)
SortedNumbers(S) ==
    IF S = {} THEN <<>>
    ELSE LET m == CHOOSE n \in S : \A k \in S : n <= k
         IN <<m>> \o SortedNumbers(S \ {m})

(***************************************************************************)
(* The requests peers write on an index connection.                        *)
(***************************************************************************)
HostH == Str("Host")
PortH == Str("Port")
TitleH == Str("Title")

Titles == {Str("T1"), Str("T2")}

IdHeaders(id) == <<<<HostH, id[1]>>, <<PortH, id[2]>>>>
WithTitle(id, t) == IdHeaders(id) \o <<<<TitleH, t>>>>

\* the Host and Port header values of the peers: port 0, a port written with
\* a leading zero, an empty host
IdA == <<Str("a"), Str("0")>>
IdB == <<Str("b"), Str("07")>>
IdE == <<<<>>, Str("7")>>
\* the peer that sends nothing but requests with an unknown method
IdC == <<Str("b"), Str("2")>>
V2 == "P2P-CI/2.0"

RFC1 == <<"RFC", SP, "1">>
RFC2 == <<"RFC", SP, "2">>

AddRequests ==
    {build_request(Str("ADD"), RFC1, WithTitle(IdA, t), <<>>) : t \in Titles}
        \cup {build_request(Str("ADD"), RFC1, WithTitle(id, Str("T1")), <<>>) : id \in {IdB, IdE}}
        \cup {build_request(Str("ADD"), RFC2, WithTitle(IdA, Str("T1")), <<>>)}
LookupRequests ==
    { build_request(Str("LOOKUP"), RFC1, WithTitle(IdB, RFC1), <<>>),
      build_request(Str("LOOKUP"), RFC2, WithTitle(IdA, RFC2), <<>>) }
ListRequests ==
    {build_request(Str("LIST"), Str("ALL"), IdHeaders(IdA), <<>>)}

\* messages parse_message or parse_request_line reject
UndecodableRequests ==
    { _serialise(<<"ADD", SP, PROTOCOL_VERSION>>, WithTitle(IdA, Str("T1")), <<>>),
      <<"ADD", SP, "RFC", SP, "1", SP, PROTOCOL_VERSION, CRLF,
        "Host", SP, "a", CRLF, CRLF>> }
\* another version, also with a bad Port or an unknown method
VersionRequests ==
    { _serialise(<<"ADD", SP, "RFC", SP, "1", SP, V2>>, WithTitle(IdB, Str("T1")), <<>>),
      _serialise(<<"ADD", SP, "RFC", SP, "1", SP, V2>>,
                 WithTitle(<<Str("b"), Str("x")>>, Str("T1")), <<>>),
      _serialise(<<"GET", SP, "RFC", SP, "1", SP, V2>>, IdHeaders(IdB), <<>>) }
\* Host or Port missing, Port not a number
HeaderRequests ==
    { build_request(Str("ADD"), <<"RFC", SP, "1">>,
                    <<<<PortH, Str("7")>>, <<TitleH, Str("T1")>>>>, <<>>),
      build_request(Str("LIST"), Str("ALL"), <<<<HostH, Str("b")>>>>, <<>>),
      build_request(Str("ADD"), <<"RFC", SP, "1">>,
                    WithTitle(<<Str("b"), Str("x")>>, Str("T1")), <<>>),
      build_request(Str("LOOKUP"), <<"RFC", SP, "1">>,
                    WithTitle(<<Str("b"), <<>>>>, Str("T1")), <<>>) }
\* rejected by the method's own checks
ResourceRequests ==
    { build_request(Str("ADD"), <<"RFC", SP, "x">>, WithTitle(IdB, Str("T1")), <<>>),
      build_request(Str("ADD"), Str("ALL"), WithTitle(IdA, Str("T1")), <<>>),
      build_request(Str("ADD"), <<"RFC", SP, "1">>, IdHeaders(IdB), <<>>),
      build_request(Str("ADD"), <<"RFC", SP, "1">>, WithTitle(IdA, <<>>), <<>>),
      build_request(Str("LOOKUP"), <<"RFC", SP, "x">>, WithTitle(IdB, Str("T1")), <<>>),
      build_request(Str("LIST"), <<"RFC", SP, "1">>, IdHeaders(IdB), <<>>) }
UnknownMethodRequests ==
    {build_request(Str("GET"), <<"RFC", SP, "1">>, IdHeaders(id), <<>>) : id \in {IdA, IdC}}

\* requests whose resource carries zero, a negative number, a word or a
\* positive number, and LIST ALL
NumberRequests ==
    {build_request(method, <<"RFC", SP, n>>, WithTitle(IdB, Str("T1")), <<>>) :
        method \in {Str("ADD"), Str("LOOKUP")}, n \in {"0", "-1", "x", "1"}}
        \cup ListRequests

Requests ==
    AddRequests \cup LookupRequests \cup ListRequests \cup UndecodableRequests
        \cup VersionRequests \cup HeaderRequests \cup ResourceRequests
        \cup UnknownMethodRequests

(***************************************************************************)
(* handle_client, lines 150-214: what the handler makes of a raw request   *)
(* before it calls the index.                                              *)
(***************************************************************************)
NoLocals == [method |-> "none", number |-> 0, title |-> <<>>, host |-> <<>>, port |-> 0]

\* the request is answered at once, without a call of the index
Reject(response) == [reject |-> Some(response), registers |-> FALSE, locals |-> NoLocals]

\* a changed handler: a request the method's own checks reject is answered 404
DispatchNotFound(method, resource, title, host, port_value) ==
    [reject |-> Some(NotFound), registers |-> TRUE,
     locals |-> [method |-> "reject", number |-> 0, title |-> <<>>,
                 host |-> host, port |-> port_value]]

\* the checks of the method, lines 178-214: "add", "lookup", "list", or "reject"
\* when the method answers 400 itself; number and title where the method reads them
Dispatch(method, resource, title, host, port_value) ==
    LET number == parse_rfc_resource(resource)
        goes == IF method = Str("ADD")
                THEN IF number = None \/ title = None \/ title = Some(<<>>)
                     THEN "reject" ELSE "add"
                ELSE IF method = Str("LOOKUP")
                THEN IF number = None THEN "reject" ELSE "lookup"
                ELSE IF method = Str("LIST")
                THEN IF resource # Str("ALL") THEN "reject" ELSE "list"
                ELSE "reject"
    IN [reject |-> IF goes = "reject" THEN Some(BadRequest) ELSE None,
        registers |-> TRUE,
        locals |-> [method |-> goes,
                    number |-> IF goes \in {"add", "lookup"} THEN number[1] ELSE 0,
                    title |-> IF goes = "add" THEN title[1] ELSE <<>>,
                    host |-> host,
                    port |-> port_value]]

\* lines 150-176: decode, version, Host and Port
Check(raw) ==
    LET message == parse_message(raw) IN
    IF message = ProtocolError THEN Reject(BadRequest)
    ELSE LET line == parse_request_line(message[1]) IN
         IF line = ProtocolError THEN Reject(BadRequest)
         ELSE IF line[3] # Str(PROTOCOL_VERSION) THEN Reject(VersionNotSupported)
         ELSE LET host == DictGet(message[2], HostH)
                  port_header == DictGet(message[2], PortH)
              IN IF host = None \/ port_header = None THEN Reject(BadRequest)
                 ELSE LET port_value == ParseInt(port_header[1]) IN
                      IF port_value = None THEN Reject(BadRequest)
                      ELSE Dispatch(line[1], line[2], DictGet(message[2], TitleH),
                                    host[1], port_value[1])

\* the outcome of lines 150-214 for each request of the model
Checked == [raw \in Requests \cup NumberRequests |-> Check(raw)]

(***************************************************************************)
(* The index server: RFCIndex and one handle_client thread per connection. *)
(***************************************************************************)
VARIABLES
    records,      \* RFCIndex._records: number -> dict of (host, port) -> RFCRecord
    peer_rfcs,    \* RFCIndex._peer_rfcs: (host, port) -> set of numbers
    lock,         \* RFCIndex._lock: 0 when free, else the connection whose thread holds it
    pc,           \* where each connection's thread stands
    peer_host,    \* handle_client's peer_host, an Optional
    peer_port,    \* handle_client's peer_port, an Optional
    req,          \* the locals of the request the thread is handling
    numbers,      \* unregister_peer's popped set, still to be visited
    keys,         \* list_all's sorted RFC numbers, still to be visited
    all_entries,  \* list_all's all_entries
    sent,         \* the response the last step wrote to its connection, << >> if none
    nreq,         \* number of requests received so far, on all connections
    snap,         \* history: the index as it was when the thread took the lock
    advertised,   \* history: <<number, host, port>> -> title of the latest ADD
    declared      \* history: the (host, port) pairs that passed the header check

\* the objects of a peer process (peer/client.py, peer/upload_server.py), one
\* record each, its fields named as in the source
VARIABLES
    client,       \* a CentralServerClient and its connection to the index server
    upload,       \* one connection accepted by a PeerUploadServer
    download,     \* a PeerNode running download_from_peers
    sync,         \* a PeerNode running sync_local_rfcs
    refresh,      \* a PeerNode running lookup_rfc or list_index
    offline,      \* a CentralServerClient in offline mode, beside a live index
    listener,     \* the accept loops of the two servers
    codec,        \* a message passed through _serialise and parse_message
    transfer,     \* a PeerUploadServer answering a GET of _download_from_peer
    session,      \* a CentralServerClient and the connections it has made, at the server
    inbound       \* the requests written on one index connection, and its thread

serverVars == <<records, peer_rfcs, lock, pc, peer_host, peer_port, req, numbers, keys,
                all_entries, sent, nreq, snap, advertised, declared>>
moreVars == <<refresh, offline, listener, codec, transfer, session, inbound>>
peerVars == <<client, upload, download, sync, refresh, offline, listener, codec, transfer,
              session, inbound>>

vars == <<records, peer_rfcs, lock, pc, peer_host, peer_port, req, numbers, keys,
          all_entries, sent, nreq, snap, advertised, declared,
          client, upload, download, sync,
          refresh, offline, listener, codec, transfer, session, inbound>>

Conns == 1..NumConns

\* the thread is inside the while loop of handle_client
InLoop == {"await", "add", "add2", "lookup", "list", "list_loop"}

\* the result of a call that has not been made
NoResult == [kind |-> "none", status_code |-> 0, body |-> <<>>, raw |-> <<>>]

\* CentralServerClient.__init__, lines 67-87: no socket yet
NewClient ==
    [_socket |-> 0,       \* self._socket: 0 is None, else the number of the socket
     created |-> 0,       \* sockets created so far; they are numbered 1, 2, ...
     open |-> {},         \* the sockets created and not closed
     wire |-> <<>>,       \* what the server wrote to the socket and recv has not returned
     pc |-> "idle",       \* "recv" inside _receive_response
     buffer |-> <<>>,     \* _receive_response's buffer
     reply |-> <<>>,      \* history: the response the server wrote for the call
     result |-> NoResult, \* how the last call ended
     calls |-> 0]         \* calls made so far

\* a PeerUploadServer before it accepts a connection
NewUpload ==
    [pc |-> "idle",        \* "recv" inside _recv_text, "closed" after the with block
     storage |-> <<>>,     \* the files of the RFCStorage: number -> content
     incoming |-> <<>>,    \* what the remote side has sent and recv has not returned
     closes |-> FALSE,     \* the remote side closes once it has sent that
     data |-> <<>>,        \* _recv_text's data
     responses |-> <<>>,   \* the payloads written to the connection
     touched |-> FALSE]    \* history: the handler looked for a file in the storage
\* a PeerNode that has not started a download; the RFC downloaded is RFC 1
NewDownload ==
    [pc |-> "idle",            \* "connect" and "add" inside an attempt, then "done"
     peers |-> <<>>,           \* download_from_peers' peers
     i |-> 1,                  \* the position of the for loop in peers
     storage |-> <<>>,         \* the files of the local RFCStorage: number -> content
     response_text |-> <<>>,   \* _download_from_peer's response_text of the last fetch
     result |-> "none",        \* "success" for a DownloadResult, "failure" for the RuntimeError
     source |-> 0,             \* history: the position of the candidate that succeeded
     contacted |-> <<>>,       \* history: the positions connected to, in order
     failed |-> {},            \* history: the positions whose attempt failed or was skipped
     readd |-> "none"]         \* history: how the last central_client.add ended
\* a PeerNode that has not started sync_local_rfcs
NewSync ==
    [pc |-> "idle",       \* "loop" inside the for loop, "done" after it
     files |-> <<>>,      \* sync_local_rfcs' files
     i |-> 1,             \* the position of the for loop in files
     adds |-> <<>>,       \* history: the calls of central_client.add, in order
     logged |-> {},       \* history: the positions a warning was logged for
     raised |-> FALSE]    \* an exception has left sync_local_rfcs

\* a PeerNode that has not called lookup_rfc or list_index
NewRefresh ==
    [pc |-> "idle",       \* "fetch" inside the for loop, "done" after the call
     method |-> "none",   \* "LOOKUP" for lookup_rfc, "LIST" for list_index
     offline |-> FALSE,   \* central_client.offline
     status |-> 0,        \* response.status_code
     storage |-> <<>>,    \* the files of the local RFCStorage: number -> content
     entries |-> <<>>,    \* _refresh_local_from_entries' entries
     i |-> 1,             \* the position of the for loop in entries
     result |-> "none",   \* "returned", or "raised" for an exception of the call
     before |-> <<>>,     \* history: the local files when the call began
     fetched |-> <<>>]    \* history: the fetches made, in order
\* an offline CentralServerClient and a live index, both empty
NewOffline ==
    [pc |-> "idle",        \* "called" after a call
     calls |-> 0,          \* calls made so far
     method |-> <<>>,      \* _send_request's method of the last call
     headers |-> <<>>,     \* _send_request's headers of the last call
     rfcs |-> <<>>,        \* index["rfcs"] of the offline index file: number -> entry
     response |-> NoResult,  \* the ServerResponse of _handle_offline
     records |-> <<>>,     \* RFCIndex._records of the live index server
     peer_rfcs |-> <<>>,   \* RFCIndex._peer_rfcs of the live index server
     live |-> NoResult]    \* the ServerResponse of the client of the live server
\* the two servers before they listen
NewListener ==
    [upload |-> "idle",      \* _serve: "while", "accept", "exited"
     _socket |-> "None",     \* PeerUploadServer._socket: "open", "closed", "None"
     _shutdown |-> FALSE,    \* PeerUploadServer._shutdown
     stop |-> "none",        \* how far stop has come: "set", "closed", "done"
     upload_threads |-> 0,   \* threads of _handle_client started
     polls |-> 0,            \* parity of the timeouts of accept
     index |-> "idle",       \* serve_forever: "accept", "start", "exited"
     index_threads |-> 0]    \* threads of handle_client started
\* no message yet
NewCodec ==
    [pc |-> "idle",        \* "encoded", "decoded"
     start_line |-> <<>>,  \* _serialise's start_line
     headers |-> <<>>,     \* _serialise's headers
     body |-> <<>>,        \* _serialise's body
     raw |-> <<>>,         \* the bytes of _serialise
     decoded |-> <<>>]     \* what parse_message returns, or ProtocolError
\* no GET yet
NewTransfer ==
    [pc |-> "idle",            \* "recv", "received", "done"
     content |-> None,         \* the bytes of rfc_1.txt at the uploading peer
     sent |-> <<>>,            \* the payload of the handler's sendall
     wire |-> <<>>,            \* its bytes not yet returned by recv
     buffer |-> <<>>,          \* _recv_peer_response's buffer
     content_length |-> None,  \* _recv_peer_response's content_length
     midsplit |-> FALSE,       \* a recv has ended between "\r" and "\n"
     response_text |-> <<>>,   \* what _recv_peer_response returns
     result |-> "none",        \* "success", or "failure" for an exception
     saved |-> None]           \* the bytes storage.save has written
\* a client that has made no call yet, and an empty index
NewSession ==
    [_socket |-> 0,      \* the client's _socket: 0 for None, else the connection
     conns |-> <<>>,     \* the connections accepted by serve_forever, in order
     records |-> <<>>,   \* RFCIndex._records
     peer_rfcs |-> <<>>, \* RFCIndex._peer_rfcs
     calls |-> 0]        \* number of calls made
\* a connection on which nothing has been written yet
NewInbound ==
    [written |-> <<>>,  \* history: the requests the peer has written, in order
     wire |-> <<>>,     \* the bytes written and not yet returned by recv
     data |-> <<>>,     \* recv_request's data
     answers |-> <<>>]  \* what handle_client has made of each text of recv_request

PeerInit ==
    /\ client = NewClient
    /\ upload = NewUpload
    /\ download = NewDownload
    /\ sync = NewSync
    /\ refresh = NewRefresh
    /\ offline = NewOffline
    /\ listener = NewListener
    /\ codec = NewCodec
    /\ transfer = NewTransfer
    /\ session = NewSession
    /\ inbound = NewInbound

Init ==
    /\ PeerInit
    /\ records = <<>>
    /\ peer_rfcs = <<>>
    /\ lock = 0
    /\ pc = [c \in Conns |-> "idle"]
    /\ peer_host = [c \in Conns |-> None]
    /\ peer_port = [c \in Conns |-> None]
    /\ req = [c \in Conns |-> NoLocals]
    /\ numbers = [c \in Conns |-> {}]
    /\ keys = [c \in Conns |-> <<>>]
    /\ all_entries = [c \in Conns |-> <<>>]
    /\ sent = <<>>
    /\ nreq = 0
    /\ snap = [c \in Conns |-> <<>>]
    /\ advertised = <<>>
    /\ declared = [c \in Conns |-> {}]

\* a function with one more, or one changed, point
Put(f, k, v) == [x \in DOMAIN f \cup {k} |-> IF x = k THEN v ELSE f[x]]
\* a function without the points of K
Drop(f, K) == [x \in DOMAIN f \ K |-> f[x]]

\* a changed index: the methods do not wait for the lock
LockIgnored == TRUE

\* `with self._lock:` can be entered
LockFree == lock = 0

(* RFCIndex: the statements of the methods, as functions of the maps *)

\* a changed register_peer: nothing is registered
RegisterPeerRfcsNever(prs, key) == prs

\* a changed register_peer: the peer's set is emptied when it is known already
RegisterPeerRfcsAnew(prs, key) == Put(prs, key, {})

\* register_peer, line 47
RegisterPeerRfcs(prs, key) == IF key \in DOMAIN prs THEN prs ELSE Put(prs, key, {})

\* a changed add: the record is appended even when the peer already has one
AddRecordAppending(recs, number, title, key) ==
    LET entries == IF number \in DOMAIN recs THEN recs[number] ELSE <<>>
    IN Put(recs, number, Append(entries, <<key, RFCRecord(number, title, key[1], key[2])>>))

\* add, lines 63-64
AddRecord(recs, number, title, key) ==
    LET entries == IF number \in DOMAIN recs THEN recs[number] ELSE <<>>
    IN Put(recs, number, DictSet(entries, key, RFCRecord(number, title, key[1], key[2])))

\* a changed add: the peer is registered, the number is not noted
AddPeerRfcForgetting(prs, key, number) ==
    IF key \in DOMAIN prs THEN prs ELSE Put(prs, key, {})

\* add, line 65
AddPeerRfc(prs, key, number) ==
    Put(prs, key, (IF key \in DOMAIN prs THEN prs[key] ELSE {}) \cup {number})

\* a changed lookup: no record is found
LookupNothing(recs, number) == <<>>

\* lookup, lines 70-71
Lookup(recs, number) ==
    IF number \in DOMAIN recs THEN DictValues(recs[number]) ELSE <<>>

\* a changed unregister_peer: a number whose last record goes stays in the map
RemoveRecordKeepingNumber(recs, number, key) ==
    IF number \in DOMAIN recs /\ recs[number] # <<>> /\ DictHas(recs[number], key)
    THEN Put(recs, number, DictDel(recs[number], key))
    ELSE recs

\* a changed unregister_peer: the number goes with the records of all its peers
RemoveRecordOfAll(recs, number, key) == Drop(recs, {number})

\* unregister_peer, lines 54-58: one turn of the loop
RemoveRecord(recs, number, key) ==
    IF number \in DOMAIN recs /\ recs[number] # <<>> /\ DictHas(recs[number], key)
    THEN LET entries == DictDel(recs[number], key)
         IN IF entries = <<>> THEN Drop(recs, {number}) ELSE Put(recs, number, entries)
    ELSE recs

\* list_all, line 77: one turn of the loop
ExtendEntries(entries, recs, number) ==
    entries \o SortedByHostPort(DictValues(recs[number]))

\* list_all, lines 76-78, run without interruption over the numbers ks
RECURSIVE ListFrom(_, _, _)
ListFrom(entries, recs, ks) ==
    IF ks = <<>> THEN entries
    ELSE ListFrom(ExtendEntries(entries, recs, Head(ks)), recs, Tail(ks))

\* list_all, lines 73-78, run without interruption
list_all(recs) == ListFrom(<<>>, recs, SortedNumbers(DOMAIN recs))

\* unregister_peer, lines 53-58, run without interruption over the numbers ns
RECURSIVE RemoveRecords(_, _, _)
RemoveRecords(recs, ns, key) ==
    IF ns = {} THEN recs
    ELSE LET number == CHOOSE n \in ns : TRUE
         IN RemoveRecords(RemoveRecord(recs, number, key), ns \ {number}, key)

\* unregister_peer, lines 49-58, run without interruption: the two maps after it
unregister_peer(recs, prs, key) ==
    IF key \in DOMAIN prs
    THEN <<RemoveRecords(recs, prs[key], key), Drop(prs, {key})>>
    ELSE <<recs, prs>>

(* handle_client *)

\* a changed handler: the loop is left after every response
RespondAndLeave(c, message, ok) ==
    /\ req' = [req EXCEPT ![c] = NoLocals]
    /\ sent' = IF ok THEN message ELSE <<>>
    /\ pc' = [pc EXCEPT ![c] = "finally"]

\* send_response succeeds and the loop continues, or sendall raises
Respond(c, message, ok) ==
    /\ req' = [req EXCEPT ![c] = NoLocals]
    /\ IF ok
       THEN /\ sent' = message
            /\ pc' = [pc EXCEPT ![c] = "await"]
       ELSE /\ sent' = <<>>
            /\ pc' = [pc EXCEPT ![c] = "finally"]

\* serve_forever, lines 240-242: accept a connection and start its thread
Accept(c) ==
    /\ pc[c] = "idle"
    /\ \A d \in Conns : d < c => pc[d] # "idle"
    /\ pc' = [pc EXCEPT ![c] = "await"]
    /\ sent' = <<>>
    /\ UNCHANGED peerVars
    /\ UNCHANGED <<records, peer_rfcs, lock, peer_host, peer_port, req, numbers, keys,
                   all_entries, nreq, snap, advertised, declared>>

\* lines 141-176 and the dispatch on the method, up to its call of the index:
\* a request arrives, is decoded and checked, and the peer is registered
RecvRequest(c, raw, ok) ==
    LET did == Checked[raw]
        l == did.locals
    IN
    /\ pc[c] = "await"
    /\ nreq < MaxRequests
    /\ nreq' = nreq + 1
    /\ IF did.registers
       THEN /\ LockFree
            /\ peer_host' = [peer_host EXCEPT ![c] = Some(l.host)]
            /\ peer_port' = [peer_port EXCEPT ![c] = Some(l.port)]
            /\ declared' = [declared EXCEPT ![c] = @ \cup {<<l.host, l.port>>}]
            /\ peer_rfcs' = RegisterPeerRfcs(peer_rfcs, <<l.host, l.port>>)
       ELSE UNCHANGED <<peer_host, peer_port, declared, peer_rfcs>>
    /\ IF did.reject # None
       THEN Respond(c, did.reject[1], ok)
       ELSE /\ ok
            /\ req' = [req EXCEPT ![c] = l]
            /\ pc' = [pc EXCEPT ![c] = l.method]
            /\ sent' = <<>>
    /\ UNCHANGED peerVars
    /\ UNCHANGED <<records, lock, numbers, keys, all_entries, snap, advertised>>

\* lines 91-95 and 141-143: recv returns no bytes (the peer closed the connection)
\* and the loop breaks, or recv raises an OSError other than a timeout, which
\* leaves the loop too; both go on in the finally clause
RecvEnds(c) ==
    /\ pc[c] = "await"
    /\ pc' = [pc EXCEPT ![c] = "finally"]
    /\ sent' = <<>>
    /\ UNCHANGED peerVars
    /\ UNCHANGED <<records, peer_rfcs, lock, peer_host, peer_port, req, numbers, keys,
                   all_entries, nreq, snap, advertised, declared>>

\* add, lines 62-64: take the lock, store the record
Add(c) ==
    /\ pc[c] = "add"
    /\ LockFree
    /\ lock' = c
    /\ snap' = [snap EXCEPT ![c] = <<records, peer_rfcs>>]
    /\ LET l == req[c] IN
       /\ records' = AddRecord(records, l.number, l.title, <<l.host, l.port>>)
       /\ advertised' = Put(advertised, <<l.number, l.host, l.port>>, l.title)
    /\ pc' = [pc EXCEPT ![c] = "add2"]
    /\ sent' = <<>>
    /\ UNCHANGED peerVars
    /\ UNCHANGED <<peer_rfcs, peer_host, peer_port, req, numbers, keys, all_entries,
                   nreq, declared>>

\* add, lines 65-66, and lines 187-188: note the number, release, answer 200
AddDone(c, ok) ==
    /\ pc[c] = "add2"
    /\ LET l == req[c] IN
       /\ peer_rfcs' = AddPeerRfc(peer_rfcs, <<l.host, l.port>>, l.number)
       /\ Respond(c, OK(FormatEntry(RFCRecord(l.number, l.title, l.host, l.port))), ok)
    /\ lock' = 0
    /\ snap' = [snap EXCEPT ![c] = <<>>]
    /\ UNCHANGED peerVars
    /\ UNCHANGED <<records, peer_host, peer_port, numbers, keys, all_entries, nreq,
                   advertised, declared>>

\* lookup, lines 69-71, and lines 195-200
LookupRfc(c, ok) ==
    /\ pc[c] = "lookup"
    /\ LockFree
    /\ LET found == Lookup(records, req[c].number)
       IN Respond(c, IF found = <<>> THEN NotFound ELSE OK(format_entries(found)), ok)
    /\ UNCHANGED peerVars
    /\ UNCHANGED <<records, peer_rfcs, lock, peer_host, peer_port, numbers, keys,
                   all_entries, nreq, snap, advertised, declared>>

\* list_all, lines 74-76: take the lock, sort the numbers
List(c) ==
    /\ pc[c] = "list"
    /\ LockFree
    /\ lock' = c
    /\ snap' = [snap EXCEPT ![c] = <<records, peer_rfcs>>]
    /\ keys' = [keys EXCEPT ![c] = SortedNumbers(DOMAIN records)]
    /\ all_entries' = [all_entries EXCEPT ![c] = <<>>]
    /\ pc' = [pc EXCEPT ![c] = "list_loop"]
    /\ sent' = <<>>
    /\ UNCHANGED peerVars
    /\ UNCHANGED <<records, peer_rfcs, peer_host, peer_port, req, numbers,
                   nreq, advertised, declared>>

\* list_all, line 77: the records of the next number
ListStep(c) ==
    /\ pc[c] = "list_loop"
    /\ keys[c] # <<>>
    /\ all_entries' = [all_entries EXCEPT ![c] = ExtendEntries(@, records, Head(keys[c]))]
    /\ keys' = [keys EXCEPT ![c] = Tail(@)]
    /\ sent' = <<>>
    /\ UNCHANGED peerVars
    /\ UNCHANGED <<records, peer_rfcs, lock, pc, peer_host, peer_port, req, numbers,
                   nreq, snap, advertised, declared>>

\* list_all, line 78, and lines 206-211: release, answer
ListDone(c, ok) ==
    /\ pc[c] = "list_loop"
    /\ keys[c] = <<>>
    /\ lock' = 0
    /\ snap' = [snap EXCEPT ![c] = <<>>]
    /\ all_entries' = [all_entries EXCEPT ![c] = <<>>]
    /\ Respond(c, IF all_entries[c] = <<>> THEN NotFound
                  ELSE OK(format_entries(all_entries[c])), ok)
    /\ UNCHANGED peerVars
    /\ UNCHANGED <<records, peer_rfcs, peer_host, peer_port, numbers, keys, nreq,
                   advertised, declared>>

\* line 216: the condition under which the finally clause unregisters
ShouldUnregister(c) == peer_host[c] # None /\ peer_host[c][1] # <<>> /\ peer_port[c] # None

\* lines 216-217 and unregister_peer, lines 50-52: take the lock, pop the peer's set
Unregister(c) ==
    /\ pc[c] = "finally"
    /\ ShouldUnregister(c)
    /\ LockFree
    /\ lock' = c
    /\ snap' = [snap EXCEPT ![c] = <<records, peer_rfcs>>]
    /\ LET key == <<peer_host[c][1], peer_port[c][1]>>
       IN /\ numbers' = [numbers EXCEPT ![c] =
                           IF key \in DOMAIN peer_rfcs THEN peer_rfcs[key] ELSE {}]
          /\ peer_rfcs' = Drop(peer_rfcs, {key})
          /\ advertised' = Drop(advertised, {k \in DOMAIN advertised : <<k[2], k[3]>> = key})
    /\ pc' = [pc EXCEPT ![c] = "unregister"]
    /\ sent' = <<>>
    /\ UNCHANGED peerVars
    /\ UNCHANGED <<records, peer_host, peer_port, req, keys, all_entries,
                   nreq, declared>>

\* unregister_peer, lines 53-58: one number of the popped set
UnregisterStep(c, number) ==
    /\ pc[c] = "unregister"
    /\ number \in numbers[c]
    /\ records' = RemoveRecord(records, number, <<peer_host[c][1], peer_port[c][1]>>)
    /\ numbers' = [numbers EXCEPT ![c] = @ \ {number}]
    /\ sent' = <<>>
    /\ UNCHANGED peerVars
    /\ UNCHANGED <<peer_rfcs, lock, pc, peer_host, peer_port, req, keys, all_entries,
                   nreq, snap, advertised, declared>>

\* a changed unregister_peer: it returns without releasing the lock
UnregisterDoneHolding(c) ==
    /\ pc[c] = "unregister"
    /\ numbers[c] = {}
    /\ snap' = [snap EXCEPT ![c] = <<>>]
    /\ pc' = [pc EXCEPT ![c] = "closed"]
    /\ peer_host' = [peer_host EXCEPT ![c] = None]
    /\ peer_port' = [peer_port EXCEPT ![c] = None]
    /\ declared' = [declared EXCEPT ![c] = {}]
    /\ sent' = <<>>
    /\ UNCHANGED peerVars
    /\ UNCHANGED <<records, peer_rfcs, lock, req, numbers, keys,
                   all_entries, nreq, advertised>>

\* unregister_peer returns and lines 219-223: release, close the connection
UnregisterDone(c) ==
    /\ pc[c] = "unregister"
    /\ numbers[c] = {}
    /\ lock' = 0
    /\ snap' = [snap EXCEPT ![c] = <<>>]
    /\ pc' = [pc EXCEPT ![c] = "closed"]
    /\ peer_host' = [peer_host EXCEPT ![c] = None]
    /\ peer_port' = [peer_port EXCEPT ![c] = None]
    /\ declared' = [declared EXCEPT ![c] = {}]
    /\ sent' = <<>>
    /\ UNCHANGED peerVars
    /\ UNCHANGED <<records, peer_rfcs, req, numbers, keys,
                   all_entries, nreq, advertised>>

\* lines 216 and 219-223: nothing to unregister, close the connection
Close(c) ==
    /\ pc[c] = "finally"
    /\ ~ShouldUnregister(c)
    /\ pc' = [pc EXCEPT ![c] = "closed"]
    /\ peer_host' = [peer_host EXCEPT ![c] = None]
    /\ peer_port' = [peer_port EXCEPT ![c] = None]
    /\ declared' = [declared EXCEPT ![c] = {}]
    /\ sent' = <<>>
    /\ UNCHANGED peerVars
    /\ UNCHANGED <<records, peer_rfcs, lock, req, numbers, keys,
                   all_entries, nreq, snap, advertised>>

Next ==
    \E c \in Conns :
        \/ Accept(c)
        \/ \E raw \in Requests, ok \in BOOLEAN : RecvRequest(c, raw, ok)
        \/ RecvEnds(c)
        \/ Add(c)
        \/ \E ok \in BOOLEAN : AddDone(c, ok)
        \/ \E ok \in BOOLEAN : LookupRfc(c, ok)
        \/ List(c)
        \/ ListStep(c)
        \/ \E ok \in BOOLEAN : ListDone(c, ok)
        \/ Unregister(c)
        \/ \E number \in {1, 2} : UnregisterStep(c, number)
        \/ UnregisterDone(c)
        \/ Close(c)

Spec == Init /\ [][Next]_vars

(***************************************************************************)
(* LIST ALL on an index filled by up to MaxAdds calls of add: connection 1 *)
(* has sent ADD requests under several (host, port) pairs, all answered,   *)
(* and then LIST ALL.                                                      *)
(***************************************************************************)
\* the arguments of the calls of add: <<number, title, host, port>>
AddCalls ==
    {<<n, Str("T1"), k[1], k[2]>> :
        n \in {1, 2}, k \in {<<Str("a"), 0>>, <<Str("a"), 7>>, <<Str("b"), 7>>, <<<<>>, 7>>}}
        \cup {<<1, Str("T2"), Str("a"), 0>>}

\* the sequences of at most n calls
RECURSIVE AddRuns(_)
AddRuns(n) ==
    IF n = 0 THEN {<<>>}
    ELSE LET shorter == AddRuns(n - 1)
         IN shorter \cup {Append(run, call) : run \in shorter, call \in AddCalls}

\* records, peer_rfcs and advertised after the calls of a run, lines 174-175
\* and 183 for each of them
RECURSIVE AfterRun(_)
AfterRun(run) ==
    IF run = <<>> THEN <<<<>>, <<>>, <<>>>>
    ELSE LET then == AfterRun(SubSeq(run, 1, Len(run) - 1))
             call == run[Len(run)]
             key == <<call[3], call[4]>>
         IN << AddRecord(then[1], call[1], call[2], key),
               AddPeerRfc(RegisterPeerRfcs(then[2], key), key, call[1]),
               Put(then[3], <<call[1], call[3], call[4]>>, call[2]) >>

ListLocals == [method |-> "list", number |-> 0, title |-> <<>>, host |-> Str("a"), port |-> 0]

InitList ==
    \E run \in AddRuns(MaxAdds) :
        LET index == AfterRun(run) IN
        /\ PeerInit
        /\ records = index[1]
        /\ peer_rfcs = RegisterPeerRfcs(index[2], <<Str("a"), 0>>)
        /\ advertised = index[3]
        /\ lock = 0
        /\ pc = [c \in Conns |-> IF c = 1 THEN "list" ELSE "idle"]
        /\ peer_host = [c \in Conns |-> IF c = 1 THEN Some(Str("a")) ELSE None]
        /\ peer_port = [c \in Conns |-> IF c = 1 THEN Some(0) ELSE None]
        /\ req = [c \in Conns |-> IF c = 1 THEN ListLocals ELSE NoLocals]
        /\ numbers = [c \in Conns |-> {}]
        /\ keys = [c \in Conns |-> <<>>]
        /\ all_entries = [c \in Conns |-> <<>>]
        /\ sent = <<>>
        /\ nreq = Len(run) + 1
        /\ snap = [c \in Conns |-> <<>>]
        /\ declared = [c \in Conns |-> IF c = 1 THEN DOMAIN index[2] \cup {<<Str("a"), 0>>}
                                        ELSE {}]

NextList ==
    \E c \in Conns :
        \/ List(c)
        \/ ListStep(c)
        \/ \E ok \in BOOLEAN : ListDone(c, ok)

SpecList == InitList /\ [][NextList]_vars

(***************************************************************************)
(* peer/client.py: CentralServerClient, not offline.  SpecClient is one    *)
(* client making calls to an index server that answers each request with   *)
(* one of the messages send_response writes; recv returns what is on the   *)
(* wire in pieces of any size.                                             *)
(***************************************************************************)
\* messages the index server writes: without body, with one and with two lines
ServerResponses ==
    {NotFound, BadRequest,
     OK(FormatEntry(RFCRecord(1, Str("T1"), Str("a"), 0))),
     OK(format_entries(<<RFCRecord(1, Str("T1"), Str("a"), 0),
                         RFCRecord(2, Str("T2"), Str("b"), 7)>>))}

ConnectionFailed == [kind |-> "ConnectionError", status_code |-> 0, body |-> <<>>, raw |-> <<>>]
ParseFailed == [kind |-> "ProtocolError", status_code |-> 0, body |-> <<>>, raw |-> <<>>]

\* str.endswith
EndsWith(s, suffix) ==
    Len(s) >= Len(suffix) /\ SubSeq(s, Len(s) - Len(suffix) + 1, Len(s)) = suffix

\* _receive_response, lines 152-161: the ServerResponse of the buffer, or the
\* ProtocolError of parse_message or parse_status_line
ServerResponse(raw) ==
    LET message == parse_message(raw) IN
    IF message = ProtocolError THEN ParseFailed
    ELSE LET status == parse_status_line(message[1]) IN
         IF status = ProtocolError THEN ParseFailed
         ELSE [kind |-> "response", status_code |-> status[2], body |-> message[3],
               raw |-> raw]

\* a changed client: close leaves the socket where it is
closeKeeping(cl) == cl

\* close, lines 163-169
close(cl) == [cl EXCEPT !._socket = 0, !.open = @ \ {cl._socket}, !.wire = <<>>]

\* _ensure_connection, lines 126-137; when create_connection fails the socket
\* stays None
_ensure_connection(cl, connects) ==
    IF cl._socket # 0 \/ ~connects THEN cl
    ELSE [cl EXCEPT !._socket = cl.created + 1, !.created = @ + 1,
                    !.open = @ \cup {cl.created + 1}]

\* _send_request, lines 106-119, up to the first recv: connect if there is no
\* socket, send; the server's answer goes on the wire. A failed connect raises
\* ConnectionError, a failed sendall closes the socket and raises it
SendRequest(connects, sends, response) ==
    /\ client.pc = "idle"
    /\ client.calls < MaxCalls
    /\ LET ensured == _ensure_connection([client EXCEPT !.calls = @ + 1, !.reply = <<>>,
                                                        !.buffer = <<>>], connects)
       IN client' = IF ensured._socket = 0
                    THEN [ensured EXCEPT !.result = ConnectionFailed]
                    ELSE IF ~sends
                    THEN [close(ensured) EXCEPT !.result = ConnectionFailed]
                    ELSE [ensured EXCEPT !.pc = "recv", !.reply = response,
                                         !.wire = @ \o response]
    /\ UNCHANGED <<serverVars, moreVars, upload, download, sync>>

\* _receive_response, lines 144-150 and 151-161: recv returns the next k
\* tokens; the loop ends when the buffer ends with two CRLF, and the call
\* returns the parsed response; a ProtocolError leaves the socket as it is
Recv(k) ==
    /\ client.pc = "recv"
    /\ k \in 1..Len(client.wire)
    /\ LET buffer == client.buffer \o SubSeq(client.wire, 1, k)
           got == [client EXCEPT !.buffer = buffer,
                                 !.wire = SubSeq(@, k + 1, Len(@))]
       IN client' = IF EndsWith(buffer, <<CRLF, CRLF>>)
                    THEN [got EXCEPT !.pc = "idle", !.result = ServerResponse(buffer)]
                    ELSE got
    /\ UNCHANGED <<serverVars, moreVars, upload, download, sync>>

\* lines 146-148 and 117-119: recv returns no bytes (the server closed the
\* connection) or raises a timeout or another OSError; the socket is closed
\* and the call raises ConnectionError
RecvFails ==
    /\ client.pc = "recv"
    /\ client' = [close(client) EXCEPT !.pc = "idle", !.result = ConnectionFailed]
    /\ UNCHANGED <<serverVars, moreVars, upload, download, sync>>

\* PeerNode.shutdown, line 287: the owner closes the client between calls
ClientClose ==
    /\ client.pc = "idle"
    /\ client._socket # 0
    /\ client' = close(client)
    /\ UNCHANGED <<serverVars, moreVars, upload, download, sync>>

NextClient ==
    \/ \E connects \in BOOLEAN, sends \in BOOLEAN, response \in ServerResponses :
           SendRequest(connects, sends, response)
    \/ \E k \in 1..Len(client.wire) : Recv(k)
    \/ RecvFails
    \/ ClientClose

SpecClient == Init /\ [][NextClient]_vars

(***************************************************************************)
(* peer/upload_server.py: the handler of one accepted connection.          *)
(* SpecUpload is an upload server accepting connections one after another; *)
(* the remote side sends a request, or only the beginning of one, and then *)
(* waits or closes.                                                        *)
(***************************************************************************)
\* len() of the UTF-8 bytes of a text; every token of the model is ASCII
RECURSIVE ByteLen(_)
ByteLen(text) == IF text = <<>> THEN 0 ELSE Len(Head(text)) + ByteLen(Tail(text))

\* build_status, protocol.py lines 44-52
build_status(version, status_code, reason, headers, body) ==
    _serialise(<<version, SP>> \o FormatInt(status_code) \o <<SP>> \o reason, headers, body)

OSH == Str("OS")
ContentLengthH == <<"Content-Length">>
\* formatdate(usegmt=True) and platform.platform()
DateValue == <<"Wed,", SP, "04", SP, "Nov", SP, "2026", SP, "22", COLON, "00", COLON, "00",
               SP, "GMT">>
OSValue == Str("Linux")
TextPlain == Str("text/plain")

\* a changed handler: every error is sent as 400 Bad Request
_send_bad_request(status, reason) ==
    build_status(PROTOCOL_VERSION, 400, <<"Bad", SP, "Request">>,
                 << <<Str("Date"), DateValue>>, <<OSH, OSValue>>,
                    <<ContentLengthH, FormatInt(0)>>, <<Str("Content-Type"), TextPlain>> >>,
                 <<>>)

\* _send_error, lines 121-141
_send_error(status, reason) ==
    build_status(PROTOCOL_VERSION, status, reason,
                 << <<Str("Date"), DateValue>>, <<OSH, OSValue>>,
                    <<ContentLengthH, FormatInt(0)>>, <<Str("Content-Type"), TextPlain>> >>,
                 <<>>)

\* lines 89-104: the 200 response carrying a file
FileResponse(content) ==
    build_status(PROTOCOL_VERSION, 200, <<"OK">>,
                 << <<Str("Date"), DateValue>>, <<OSH, OSValue>>,
                    <<Str("Last-Modified"), DateValue>>,
                    <<ContentLengthH, FormatInt(ByteLen(content))>>,
                    <<Str("Content-Type"), TextPlain>> >>,
                 content)

\* the storages of the model: empty, or rfc_1.txt alone
Content1 == <<"x", SP, "y">>
Storages == {<<>>, <<Content1>>}

\* _handle_client, lines 59-119, once _recv_text has returned: the payload
\* written to the connection, << >> for none, and whether the storage was
\* looked at
HandleRequest(request_text, storage) ==
    LET error(status, reason) == [response |-> _send_error(status, reason), touched |-> FALSE]
        bad == error(400, <<"Bad", SP, "Request">>)
        message == parse_message(request_text)
    IN
    IF request_text = <<>> THEN [response |-> <<>>, touched |-> FALSE]
    ELSE IF message = ProtocolError THEN bad
    ELSE LET line == parse_request_line(message[1]) IN
         IF line = ProtocolError THEN bad
         ELSE IF line[3] # Str(PROTOCOL_VERSION)
              THEN error(505, <<"P2P-CI", SP, "Version", SP, "Not", SP, "Supported">>)
         ELSE IF line[1] # Str("GET") THEN bad
         ELSE IF ~DictHas(message[2], HostH) \/ ~DictHas(message[2], OSH) THEN bad
         ELSE LET parts == Words(line[2]) IN
              IF Len(parts) # 2 \/ parts[1] # Str("RFC") THEN bad
              ELSE IF ParseInt(parts[2]) = None THEN bad
              ELSE LET rfc_number == ParseInt(parts[2])[1] IN
                   IF rfc_number \notin DOMAIN storage
                   THEN [response |-> _send_error(404, <<"Not", SP, "Found">>),
                         touched |-> TRUE]
                   ELSE [response |-> FileResponse(storage[rfc_number]), touched |-> TRUE]

\* the requests remote peers send, by the first check that fails
GetHeaders == << <<HostH, Str("a")>>, <<OSH, OSValue>> >>
GoodGets == {build_request(Str("GET"), RFC1, GetHeaders, <<>>)}
AbsentGets == {build_request(Str("GET"), RFC2, GetHeaders, <<>>)}
VersionGets ==
    { _serialise(<<"GET", SP, "RFC", SP, "1", SP, V2>>, GetHeaders, <<>>),
      _serialise(<<"ADD", SP, "RFC", SP, "1", SP, V2>>, GetHeaders, <<>>),
      _serialise(<<"GET", SP, "RFC", SP, "x", SP, V2>>, <<<<OSH, OSValue>>>>, <<>>) }
MethodGets ==
    { build_request(Str("LOOKUP"), RFC1, GetHeaders, <<>>),
      build_request(Str("get"), RFC1, GetHeaders, <<>>),
      build_request(Str("ADD"), RFC2, <<<<HostH, Str("a")>>>>, <<>>) }
HeaderGets ==
    { build_request(Str("GET"), RFC1, <<<<HostH, Str("a")>>>>, <<>>),
      build_request(Str("GET"), RFC1, <<<<OSH, OSValue>>>>, <<>>),
      build_request(Str("GET"), RFC2, <<>>, <<>>),
      build_request(Str("GET"), Str("ALL"), <<<<HostH, Str("a")>>>>, <<>>) }
ResourceGets ==
    { build_request(Str("GET"), Str("ALL"), GetHeaders, <<>>),
      build_request(Str("GET"), <<"RFC", SP, "x">>, GetHeaders, <<>>),
      build_request(Str("GET"), <<"rfc", SP, "1">>, GetHeaders, <<>>),
      build_request(Str("GET"), <<"RFC", SP, "1", SP, "2">>, GetHeaders, <<>>) }
UndecodableGets ==
    { <<"GET", SP, "RFC", SP, "1", SP, PROTOCOL_VERSION, CRLF, "Host", SP, "a", CRLF, CRLF>>,
      _serialise(<<"GET", SP, PROTOCOL_VERSION>>, GetHeaders, <<>>) }
UploadRequests ==
    GoodGets \cup AbsentGets \cup VersionGets \cup MethodGets \cup HeaderGets
        \cup ResourceGets \cup UndecodableGets

\* the beginnings of a good request, the empty one included
Beginnings ==
    LET good == build_request(Str("GET"), RFC1, GetHeaders, <<>>)
    IN {SubSeq(good, 1, n) : n \in 0..(Len(good) - 1)}

\* lines 55-58 with serve_forever's accept: a connection is accepted; the
\* remote side has sent text and closes after it or keeps the connection open
UploadAccept(text, closes, storage) ==
    /\ upload.pc \in {"idle", "closed"}
    /\ upload' = [pc |-> "recv", storage |-> storage, incoming |-> text, closes |-> closes,
                  data |-> <<>>, responses |-> <<>>, touched |-> FALSE]
    /\ UNCHANGED <<serverVars, moreVars, client, download, sync>>

\* the handler after _recv_text returned data, to the end of the with block
Handled(data) ==
    LET did == HandleRequest(data, upload.storage) IN
    [upload EXCEPT !.pc = "closed", !.data = data, !.incoming = <<>>,
                   !.responses = IF did.response = <<>> THEN <<>> ELSE <<did.response>>,
                   !.touched = did.touched]

\* _recv_text, lines 146-150: recv returns the next k tokens; with a double
\* CRLF in data the loop ends and the request is handled
UploadRecv(k) ==
    /\ upload.pc = "recv"
    /\ k \in 1..Len(upload.incoming)
    /\ LET data == upload.data \o SubSeq(upload.incoming, 1, k) IN
       upload' = IF Contains(data, <<CRLF, CRLF>>)
                 THEN Handled(data)
                 ELSE [upload EXCEPT !.data = data,
                                     !.incoming = SubSeq(@, k + 1, Len(@))]
    /\ UNCHANGED <<serverVars, moreVars, client, download, sync>>

\* _recv_text, lines 148-149: the remote side has closed, recv returns no
\* bytes, the loop breaks and the handler goes on with what was received
UploadRecvEmpty ==
    /\ upload.pc = "recv"
    /\ upload.incoming = <<>> /\ upload.closes
    /\ upload' = Handled(upload.data)
    /\ UNCHANGED <<serverVars, moreVars, client, download, sync>>

\* line 144 and lines 116-118: recv times out after 5 seconds; the timeout is
\* an Exception, answered 500
UploadRecvTimeout ==
    /\ upload.pc = "recv"
    /\ upload.incoming = <<>> /\ ~upload.closes
    /\ upload' = [upload EXCEPT !.pc = "closed",
                      !.responses = <<_send_error(500, <<"Internal", SP, "Server", SP, "Error">>)>>]
    /\ UNCHANGED <<serverVars, moreVars, client, download, sync>>

NextUpload ==
    \/ \E text \in UploadRequests \cup Beginnings, closes \in BOOLEAN, storage \in Storages :
           UploadAccept(text, closes, storage)
    \/ \E k \in 1..Len(upload.incoming) : UploadRecv(k)
    \/ UploadRecvEmpty
    \/ UploadRecvTimeout

SpecUpload == Init /\ [][NextUpload]_vars

(***************************************************************************)
(* peer/client.py: PeerNode.download_from_peers with download_specific,    *)
(* _download_from_peer and _recv_peer_response.  SpecDownload is one node  *)
(* downloading RFC 1 from a list of candidates; each candidate contacted   *)
(* sends one of PeerTexts and closes; central_client.add ends in one of    *)
(* the ways a CentralServerClient call can end.                            *)
(***************************************************************************)
\* the candidate that is the node itself, and two other peers
Self == "self"
Candidates == {Self, "p", "q"}
RECURSIVE PeerLists(_)
PeerLists(n) ==
    IF n = 0 THEN {<<>>}
    ELSE PeerLists(n - 1)
             \cup {Append(l, c) : l \in {m \in PeerLists(n - 1) : Len(m) = n - 1},
                                  c \in Candidates}

\* what a candidate sends before it closes: the file; an error; the file cut
\* in its body, in its headers after a whole line and inside a header name;
\* the file followed by more bytes; a 200 without Content-Length; nothing
PeerTexts ==
    LET file == FileResponse(Content1)
        date == Find(file, <<"OS">>) - 1
    IN { file,
         _send_error(404, <<"Not", SP, "Found">>),
         SubSeq(file, 1, Len(file) - 1),
         SubSeq(file, 1, date),
         SubSeq(file, 1, date + 1),
         file \o <<"z">>,
         build_status(PROTOCOL_VERSION, 200, <<"OK">>, << <<OSH, OSValue>> >>, Content1),
         <<>> }

\* how central_client.add ends: a status, or an exception
AddOutcomes == {"200", "400", "ConnectionError", "ProtocolError"}

\* download_from_peers, lines 373-385, from the head of the for loop to the
\* next connect: the node's own location counts when the file is there and is
\* skipped when it is not; after the last candidate the RuntimeError
RECURSIVE Advance(_)
Advance(d) ==
    IF d.i > Len(d.peers) THEN [d EXCEPT !.pc = "done", !.result = "failure"]
    ELSE IF d.peers[d.i] = Self
         THEN IF 1 \in DOMAIN d.storage
              THEN [d EXCEPT !.pc = "done", !.result = "success", !.source = d.i]
              ELSE Advance([d EXCEPT !.i = @ + 1, !.failed = @ \cup {d.i}])
         ELSE [d EXCEPT !.pc = "connect"]

\* a changed loop: the first failed attempt ends the download
CandidateFailedGivesUp(d) ==
    [d EXCEPT !.pc = "done", !.result = "failure", !.failed = @ \cup {d.i}]

\* lines 382-384: an exception of download_specific is logged and the loop
\* goes on with the next candidate
CandidateFailed(d) ==
    Advance([d EXCEPT !.i = @ + 1, !.failed = @ \cup {d.i}])

Raised == [raised |-> TRUE, text |-> <<>>]
Returned(text) == [raised |-> FALSE, text |-> text]

\* _recv_peer_response, lines 40-64: the loop over the chunks recv returns;
\* when they are used up recv returns no bytes if the candidate closes, and
\* times out if it does not. A header line without colon raises ValueError
RECURSIVE RecvLoop(_, _, _, _)
RecvLoop(chunks, buffer, content_length, closes) ==
    IF chunks = <<>> THEN (IF closes THEN Returned(buffer) ELSE Raised)
    ELSE LET grown == buffer \o Head(chunks)
             hb == Partition(grown, <<CRLF, CRLF>>)
         IN
         IF content_length = None /\ Contains(grown, <<CRLF, CRLF>>)
         THEN LET headers == ParseHeaderLines(Tail(Split(hb[1], <<CRLF>>)), <<>>) IN
              IF headers = ProtocolError THEN Raised
              ELSE LET value == DictGet(headers, ContentLengthH)
                       length == IF value = None \/ ParseInt(value[1]) = None THEN 0
                                 ELSE ParseInt(value[1])[1]
                   IN IF length = 0 \/ ByteLen(hb[2]) >= length
                      THEN Returned(grown)
                      ELSE RecvLoop(Tail(chunks), grown, Some(length), closes)
         ELSE IF content_length # None /\ ByteLen(hb[2]) >= content_length[1]
              THEN Returned(grown)
         ELSE RecvLoop(Tail(chunks), grown, content_length, closes)

_recv_peer_response(chunks, closes) == RecvLoop(chunks, <<>>, None, closes)

\* _download_from_peer, lines 409-418, once response_text is there: the body,
\* or the exception of a parser, of a status other than 200, of int() or of a
\* body whose length is not the Content-Length
_download_from_peer(response_text) ==
    LET message == parse_message(response_text) IN
    IF message = ProtocolError THEN Raised
    ELSE LET status == parse_status_line(message[1])
             expected == DictGet(message[2], ContentLengthH)
         IN IF status = ProtocolError THEN Raised
            ELSE IF status[2] # 200 THEN Raised
            ELSE IF /\ expected # None /\ expected[1] # <<>>
                    /\ \/ ParseInt(expected[1]) = None
                       \/ ParseInt(expected[1]) # Some(ByteLen(message[3]))
                 THEN Raised
            ELSE Returned(message[3])

\* the chunks of a text cut once, after cut tokens
Pieces(text, cut) ==
    IF text = <<>> THEN <<>>
    ELSE IF cut = 0 \/ cut >= Len(text) THEN <<text>>
    ELSE <<SubSeq(text, 1, cut), SubSeq(text, cut + 1, Len(text))>>

\* download_from_peers is called with a list of candidates
StartDownload(peers, storage) ==
    /\ download.pc \in {"idle", "done"}
    /\ download' = Advance([NewDownload EXCEPT !.peers = peers, !.storage = storage])
    /\ UNCHANGED <<serverVars, moreVars, client, upload, sync>>

\* what a candidate does: the text it sends, where recv cuts it, whether it
\* closes afterwards; and what the fetch makes of it
FetchInputs ==
    UNION {{<<text, cut, closes>> : cut \in 0..(Len(text) - 1), closes \in BOOLEAN} :
               text \in PeerTexts}
        \cup {<<<<>>, 0, closes>> : closes \in BOOLEAN}
Fetches ==
    [f \in FetchInputs |->
        LET received == _recv_peer_response(Pieces(f[1], f[2]), f[3]) IN
        [received |-> received,
         body |-> IF received.raised THEN Raised ELSE _download_from_peer(received.text)]]

\* download_specific, lines 357-358, with _download_from_peer: connect to the
\* candidate, send the GET, receive and check the response, save the body. A
\* failed connect and every exception on the way are the attempt's exception
Attempt(connects, text, cut, closes) ==
    /\ download.pc = "connect"
    /\ LET d == [download EXCEPT !.contacted = Append(@, download.i)]
           fetch == Fetches[<<text, cut, closes>>]
       IN download' = IF ~connects \/ fetch.received.raised THEN CandidateFailed(d)
                      ELSE IF fetch.body.raised
                      THEN CandidateFailed([d EXCEPT !.response_text = fetch.received.text])
                      ELSE [d EXCEPT !.pc = "add", !.response_text = fetch.received.text,
                                     !.storage = Put(@, 1, fetch.body.text)]
    /\ UNCHANGED <<serverVars, moreVars, client, upload, sync>>

\* download_specific, lines 360-370: the new copy is registered; a status
\* other than 200 is logged, an exception of the call leaves download_specific
ReAdd(outcome) ==
    /\ download.pc = "add"
    /\ LET d == [download EXCEPT !.readd = outcome] IN
       download' = IF outcome \in {"ConnectionError", "ProtocolError"}
                   THEN CandidateFailed(d)
                   ELSE [d EXCEPT !.pc = "done", !.result = "success", !.source = d.i]
    /\ UNCHANGED <<serverVars, moreVars, client, upload, sync>>

NextDownload ==
    \/ \E peers \in PeerLists(MaxPeers), storage \in Storages : StartDownload(peers, storage)
    \/ \E connects \in BOOLEAN, f \in FetchInputs : Attempt(connects, f[1], f[2], f[3])
    \/ \E outcome \in AddOutcomes : ReAdd(outcome)

SpecDownload == Init /\ [][NextDownload]_vars

(***************************************************************************)
(* peer/client.py: PeerNode.sync_local_rfcs.  SpecSync is one node         *)
(* registering the files of its store; a file is the pieces of its stem    *)
(* between underscores, whether it can be read, and its first line.        *)
(***************************************************************************)
StoredFile(stem, readable, first_line) ==
    [stem |-> stem, readable |-> readable, first_line |-> first_line]

\* rfc_1.txt with a title line, rfc_2.txt that is empty, an rfc_1.txt that
\* cannot be read, notes.txt and rfc_x.txt
StoredFiles ==
    { StoredFile(<<"rfc", "1">>, TRUE, Str("T1")),
      StoredFile(<<"rfc", "2">>, TRUE, <<>>),
      StoredFile(<<"rfc", "1">>, FALSE, Str("T1")),
      StoredFile(<<"notes">>, TRUE, Str("T2")),
      StoredFile(<<"rfc", "x">>, TRUE, Str("T1")) }

RECURSIVE FileLists(_)
FileLists(n) ==
    IF n = 0 THEN {<<>>}
    ELSE FileLists(n - 1)
             \cup {Append(l, f) : l \in {m \in FileLists(n - 1) : Len(m) = n - 1},
                                  f \in StoredFiles}

\* _extract_rfc_number, lines 436-439: int() of the last piece of the stem,
\* None for its ValueError
_extract_rfc_number(file) == ParseInt(Str(file.stem[Len(file.stem)]))

\* lines 304-309: the first line of the file, "" when it cannot be read, and
\* "RFC <number>" in place of an empty one
TitleOf(file, number) ==
    LET first_line == IF file.readable THEN Strip(file.first_line) ELSE <<>> IN
    IF first_line # <<>> THEN first_line ELSE <<"RFC", SP>> \o FormatInt(number)

\* a changed loop: an exception of central_client.add leaves sync_local_rfcs
SyncOneRaising(s, outcome) ==
    LET file == s.files[s.i]
        number == _extract_rfc_number(file)
    IN
    IF number = None THEN [s EXCEPT !.i = @ + 1, !.logged = @ \cup {s.i}]
    ELSE LET called == [s EXCEPT !.adds = Append(@, [i |-> s.i, number |-> number[1],
                                                     title |-> TitleOf(file, number[1]),
                                                     outcome |-> outcome])]
         IN IF outcome \in {"ConnectionError", "ProtocolError"}
            THEN [called EXCEPT !.pc = "done", !.raised = TRUE]
            ELSE [called EXCEPT !.i = @ + 1,
                                !.logged = IF outcome = "200" THEN @ ELSE @ \cup {s.i}]

\* lines 301-321: the body of the for loop for one file; the ADD ends with
\* outcome. Every exception is caught and logged
SyncOne(s, outcome) ==
    LET file == s.files[s.i]
        number == _extract_rfc_number(file)
    IN
    IF number = None THEN [s EXCEPT !.i = @ + 1, !.logged = @ \cup {s.i}]
    ELSE [s EXCEPT !.i = @ + 1,
                   !.adds = Append(@, [i |-> s.i, number |-> number[1],
                                       title |-> TitleOf(file, number[1]),
                                       outcome |-> outcome]),
                   !.logged = IF outcome = "200" THEN @ ELSE @ \cup {s.i}]

\* line 299: sync_local_rfcs is called, the store holding files
StartSync(files) ==
    /\ sync.pc \in {"idle", "done"}
    /\ sync' = [NewSync EXCEPT !.pc = "loop", !.files = files]
    /\ UNCHANGED <<serverVars, moreVars, client, upload, download>>

\* one turn of the for loop
SyncFile(outcome) ==
    /\ sync.pc = "loop"
    /\ sync.i <= Len(sync.files)
    /\ sync' = SyncOne(sync, outcome)
    /\ UNCHANGED <<serverVars, moreVars, client, upload, download>>

\* the for loop is exhausted and sync_local_rfcs returns
SyncReturns ==
    /\ sync.pc = "loop"
    /\ sync.i > Len(sync.files)
    /\ sync' = [sync EXCEPT !.pc = "done"]
    /\ UNCHANGED <<serverVars, moreVars, client, upload, download>>

NextSync ==
    \/ \E files \in FileLists(MaxFiles) : StartSync(files)
    \/ \E outcome \in AddOutcomes : SyncFile(outcome)
    \/ SyncReturns

SpecSync == Init /\ [][NextSync]_vars

(***************************************************************************)
(* peer/client.py: PeerNode.lookup_rfc and list_index with                 *)
(* _refresh_local_from_entries.  SpecRefresh is one node whose call to the *)
(* index ends with a status and, for a 200, a body of entry lines; each    *)
(* fetch is answered as a candidate of the download answers.               *)
(***************************************************************************)
\* the node is the peer a:1; its local files are older copies
PeerHost == Str("a")
PeerPort == 1
Stale == <<"old">>
LocalStores == {<<>>, <<Stale>>, <<Stale, Stale>>, [n \in {2} |-> Stale]}

\* the entries the index may return: RFC 1 and RFC 2, advertised by the node
\* itself, by another port of its host and by another host
Listed ==
    {RFCRecord(n, Str("T1"), hp[1], hp[2]) :
        n \in {1, 2}, hp \in {<<PeerHost, PeerPort>>, <<PeerHost, 2>>, <<Str("b"), 1>>}}

RECURSIVE EntryLists(_)
EntryLists(n) ==
    IF n = 0 THEN {<<>>}
    ELSE EntryLists(n - 1)
             \cup {Append(l, e) : l \in {m \in EntryLists(n - 1) : Len(m) = n - 1},
                                  e \in Listed}

\* _parse_peer_lines, lines 420-433: a PeerLocation for each line of five or
\* more words that begins with RFC; ProtocolError stands for int()'s ValueError
RECURSIVE ParsePeerLines(_)
ParsePeerLines(lines) ==
    IF lines = <<>> THEN <<>>
    ELSE LET parts == Words(Head(lines))
             rest == ParsePeerLines(Tail(lines))
         IN IF rest = ProtocolError THEN ProtocolError
            ELSE IF Len(parts) < 5 \/ parts[1] # Str("RFC") THEN rest
            ELSE LET number == ParseInt(parts[2])
                     port == ParseInt(parts[Len(parts)])
                 IN IF number = None \/ port = None THEN ProtocolError
                    ELSE <<RFCRecord(number[1],
                                     Join(SubSeq(parts, 3, Len(parts) - 2), <<SP>>),
                                     parts[Len(parts) - 1], port[1])>> \o rest

_parse_peer_lines(body) == ParsePeerLines(Split(Strip(body), <<CRLF>>))

\* the bodies the index server writes for a list of entries, as
\* _parse_peer_lines returns them; ProtocolError for its ValueError
ParsedBodies == {_parse_peer_lines(format_entries(listed)) : listed \in EntryLists(MaxEntries)}

\* how a fetch from the advertiser of an entry ends: what _download_from_peer
\* makes of what a candidate of the download does, or a failed connect
FetchResults == {Fetches[f].body : f \in FetchInputs} \cup {Raised}

\* a changed loop: every entry is fetched and saved
RefreshableAlways(r, entry) == TRUE

\* lines 451-455: the entry's file is there and the entry is not the node's own
Refreshable(r, entry) ==
    /\ entry.number \in DOMAIN r.storage
    /\ ~(entry.host = PeerHost /\ entry.port = PeerPort)

\* _refresh_local_from_entries, lines 450-455, from the head of the for loop
\* to the next fetch; after the last entry the call returns
RECURSIVE RefreshAdvance(_)
RefreshAdvance(r) ==
    IF r.i > Len(r.entries) THEN [r EXCEPT !.pc = "done", !.result = "returned"]
    ELSE IF Refreshable(r, r.entries[r.i]) THEN [r EXCEPT !.pc = "fetch"]
    ELSE RefreshAdvance([r EXCEPT !.i = @ + 1])

\* lookup_rfc, lines 344-354, and list_index, lines 333-342, up to the first
\* fetch: the call to the index ends with status, and parsed is what
\* _parse_peer_lines makes of the body of a 200
CallIndex(method, is_offline, status, parsed, storage) ==
    /\ refresh.pc = "idle"
    /\ LET r == [NewRefresh EXCEPT !.method = method, !.offline = is_offline,
                                   !.status = status, !.storage = storage,
                                   !.before = storage]
       IN refresh' =
            IF status = 404 THEN [r EXCEPT !.pc = "done", !.result = "returned"]
            ELSE IF status # 200 \/ parsed = ProtocolError
            THEN [r EXCEPT !.pc = "done", !.result = "raised"]
            ELSE IF is_offline
            THEN [r EXCEPT !.pc = "done", !.result = "returned", !.entries = parsed]
            ELSE RefreshAdvance([r EXCEPT !.entries = parsed])
    /\ UNCHANGED <<serverVars, client, upload, download, sync, session, inbound,
                   offline, listener, codec, transfer>>

\* lines 456-461: the fetch of the entry at the head of the loop ends as got;
\* its exception is logged, its body is saved over the local file
RefreshFetch(got) ==
    /\ refresh.pc = "fetch"
    /\ LET r == [refresh EXCEPT !.i = @ + 1,
                     !.fetched = Append(@, [i |-> refresh.i, raised |-> got.raised,
                                            body |-> got.text])]
       IN refresh' =
            IF got.raised THEN RefreshAdvance(r)
            ELSE RefreshAdvance([r EXCEPT
                     !.storage = Put(@, refresh.entries[refresh.i].number, got.text)])
    /\ UNCHANGED <<serverVars, client, upload, download, sync, session, inbound,
                   offline, listener, codec, transfer>>

NextRefresh ==
    \/ /\ refresh.pc = "idle"
       /\ \E method \in {"LOOKUP", "LIST"}, is_offline \in BOOLEAN, status \in {200, 400, 404},
             parsed \in ParsedBodies, storage \in LocalStores :
              CallIndex(method, is_offline, status, parsed, storage)
    \/ /\ refresh.pc = "fetch"
       /\ \E got \in FetchResults : RefreshFetch(got)

SpecRefresh == Init /\ [][NextRefresh]_vars


(***************************************************************************)
(* peer/client.py: CentralServerClient in offline mode.  SpecOffline is    *)
(* one peer making the same calls of add, lookup and list_all on an        *)
(* offline client, whose index file is empty at first, and on a client     *)
(* connected to an index server no other peer is connected to.             *)
(***************************************************************************)
\* the 400 of the offline backend carries the message of the error as body
OfflineBadRequest(body) == send_response(400, <<"Bad", SP, "Request">>, body)

\* _parse_rfc_resource, lines 231-236; None stands for ValueError
_parse_rfc_resource(resource) ==
    LET parts == Words(resource) IN
    IF Len(parts) # 2 \/ parts[1] # Str("RFC") THEN None ELSE ParseInt(parts[2])

\* _format_index_lines, lines 238-246, of the entries of rfcs with a number in ns
_format_index_lines(rfcs, ns) ==
    LET order == SortedNumbers(ns) IN
    Join([i \in 1..Len(order) |->
            <<"RFC", SP>> \o FormatInt(order[i]) \o <<SP>> \o rfcs[order[i]].title
                \o <<SP>> \o rfcs[order[i]].host \o <<SP>> \o rfcs[order[i]].port],
         <<CRLF>>)

\* _offline_response, lines 209-215: the ServerResponse of a status and a body
_offline_response(response, body) ==
    [kind |-> "response", status_code |-> parse_status_line(parse_message(response)[1])[2],
     body |-> body, raw |-> response]

\* _handle_offline, lines 174-191: ADD
OfflineAdd(resource, headers, rfcs) ==
    LET number == _parse_rfc_resource(resource)
        host == DictGet(headers, HostH)
        port == DictGet(headers, PortH)
        title == DictGet(headers, TitleH)
    IN IF number = None
       THEN [response |-> _offline_response(OfflineBadRequest(Str("ValueError")),
                                            Str("ValueError")),
             rfcs |-> rfcs]
       ELSE IF host = None \/ port = None \/ ParseInt(port[1]) = None
       THEN [response |-> _offline_response(OfflineBadRequest(Str("Port")), Str("Port")),
             rfcs |-> rfcs]
       ELSE LET stored == Put(rfcs, number[1],
                              [host |-> host[1], port |-> port[1],
                               title |-> IF title = None THEN <<>> ELSE title[1]])
                body == _format_index_lines(stored, {number[1]})
            IN [response |-> _offline_response(OK(body), body), rfcs |-> stored]

\* _handle_offline, lines 171-207: the response and the index written back
_handle_offline(method, resource, headers, rfcs) ==
    IF method = Str("ADD") THEN OfflineAdd(resource, headers, rfcs)
    ELSE IF method = Str("LIST")
    THEN LET body == _format_index_lines(rfcs, DOMAIN rfcs) IN
         [response |-> IF body # <<>> THEN _offline_response(OK(body), body)
                       ELSE _offline_response(NotFound, <<>>),
          rfcs |-> rfcs]
    ELSE IF method = Str("LOOKUP")
    THEN LET number == _parse_rfc_resource(resource) IN
         IF number = None
         THEN [response |-> _offline_response(OfflineBadRequest(Str("ValueError")),
                                              Str("ValueError")),
               rfcs |-> rfcs]
         ELSE IF number[1] \notin DOMAIN rfcs
         THEN [response |-> _offline_response(NotFound, <<>>), rfcs |-> rfcs]
         ELSE LET body == _format_index_lines(rfcs, {number[1]}) IN
              [response |-> _offline_response(OK(body), body), rfcs |-> rfcs]
    ELSE [response |-> _offline_response(OfflineBadRequest(Str("Unsupported")),
                                         Str("Unsupported")),
          rfcs |-> rfcs]

\* handle_client, lines 150-214, and the RFCIndex, for one request of the only
\* connection, checked as did says: the response written and the two maps
\* after it
LiveHandle(did, recs, prs) ==
    LET l == did.locals
        key == <<l.host, l.port>>
        registered == IF did.registers THEN RegisterPeerRfcs(prs, key) ELSE prs
    IN IF did.reject # None
       THEN [response |-> did.reject[1], records |-> recs, peer_rfcs |-> registered]
       ELSE IF l.method = "add"
       THEN [response |-> OK(FormatEntry(RFCRecord(l.number, l.title, l.host, l.port))),
             records |-> AddRecord(recs, l.number, l.title, key),
             peer_rfcs |-> AddPeerRfc(registered, key, l.number)]
       ELSE IF l.method = "lookup"
       THEN [response |-> IF Lookup(recs, l.number) = <<>> THEN NotFound
                          ELSE OK(format_entries(Lookup(recs, l.number))),
             records |-> recs, peer_rfcs |-> registered]
       ELSE [response |-> IF list_all(recs) = <<>> THEN NotFound
                          ELSE OK(format_entries(list_all(recs))),
             records |-> recs, peer_rfcs |-> registered]

\* the identifiers and titles of the calls; lookup's title is optional
CallNumbers == {1, 2}
CallTitles == {Str("T1"), <<"T", SP, "2">>, <<>>}

\* add, lookup and list_all, lines 90-104: the method, the resource and the
\* headers handed to _send_request
ApiCalls ==
    {<<Str("ADD"), <<"RFC", SP>> \o FormatInt(n),
       WithTitle(<<PeerHost, FormatInt(PeerPort)>>, t)>> : n \in CallNumbers, t \in CallTitles}
      \cup {<<Str("LOOKUP"), <<"RFC", SP>> \o FormatInt(n),
              WithTitle(<<PeerHost, FormatInt(PeerPort)>>,
                        IF t # <<>> THEN t ELSE <<"RFC", SP>> \o FormatInt(n))>> :
                n \in CallNumbers, t \in CallTitles}
      \cup {<<Str("LIST"), Str("ALL"), IdHeaders(<<PeerHost, FormatInt(PeerPort)>>)>>}

\* what handle_client finds in the request of each call
CallChecked ==
    [call \in ApiCalls |-> Check(build_request(call[1], call[2], call[3], <<>>))]

\* _send_request, lines 106-124: the call goes to _handle_offline on the one
\* client and as a request to the index server on the other, whose response
\* _receive_response parses
Call(method, resource, headers) ==
    /\ offline.calls < MaxCalls
    /\ LET off == _handle_offline(method, resource, headers, offline.rfcs)
           live == LiveHandle(CallChecked[<<method, resource, headers>>],
                              offline.records, offline.peer_rfcs)
       IN offline' = [offline EXCEPT !.pc = "called",
                                     !.calls = @ + 1,
                                     !.method = method,
                                     !.headers = headers,
                                     !.rfcs = off.rfcs,
                                     !.response = off.response,
                                     !.records = live.records,
                                     !.peer_rfcs = live.peer_rfcs,
                                     !.live = ServerResponse(live.response)]
    /\ UNCHANGED <<serverVars, client, upload, download, sync, session, inbound,
                   refresh, listener, codec, transfer>>

NextOffline ==
    \E call \in ApiCalls : Call(call[1], call[2], call[3])

SpecOffline == Init /\ [][NextOffline]_vars


(***************************************************************************)
(* The accept loops: PeerUploadServer.start, stop and _serve of            *)
(* peer/upload_server.py and serve_forever of server/server.py.            *)
(* SpecListener is the two loops with the connections that arrive, a stop  *)
(* of the upload server and a Ctrl+C at the index server; the steps the    *)
(* threads take by themselves, the timeout of accept among them, are       *)
(* taken when they stay possible.                                          *)
(***************************************************************************)
\* start, lines 24-32: the socket listens and the thread of _serve begins
UploadStart ==
    /\ listener.upload = "idle"
    /\ listener' = [listener EXCEPT !.upload = "while", !._socket = "open"]
    /\ UNCHANGED <<serverVars, client, upload, download, sync, session, inbound,
                   refresh, offline, codec, transfer>>

\* stop, lines 34-41, statement by statement: the flag, close, = None
UploadStop ==
    /\ listener.upload # "idle"
    /\ \/ /\ listener.stop = "none"
          /\ listener' = [listener EXCEPT !.stop = "set", !._shutdown = TRUE]
       \/ /\ listener.stop = "set"
          /\ listener' = [listener EXCEPT !.stop = "closed",
                              !._socket = IF @ = "None" THEN @ ELSE "closed"]
       \/ /\ listener.stop = "closed"
          /\ listener' = [listener EXCEPT !.stop = "done", !._socket = "None"]
    /\ UNCHANGED <<serverVars, client, upload, download, sync, session, inbound,
                   refresh, offline, codec, transfer>>

\* _serve, lines 45-47: the test of the while loop and settimeout; without a
\* socket settimeout raises AttributeError and the thread ends, on a closed
\* socket it raises OSError and the loop breaks
ServeWhile ==
    /\ listener.upload = "while"
    /\ listener' = [listener EXCEPT
           !.upload = IF listener._shutdown \/ listener._socket # "open"
                      THEN "exited" ELSE "accept"]
    /\ UNCHANGED <<serverVars, client, upload, download, sync, session, inbound,
                   refresh, offline, codec, transfer>>

\* lines 48 and 53: accept returns a connection and its thread is started
ServeAccept ==
    /\ listener.upload = "accept"
    /\ listener._socket = "open"
    /\ listener.upload_threads < MaxAccepts
    /\ listener' = [listener EXCEPT !.upload = "while", !.upload_threads = @ + 1]
    /\ UNCHANGED <<serverVars, client, upload, download, sync, session, inbound,
                   refresh, offline, codec, transfer>>

\* lines 49-50: no connection within the second
ServeTimeout ==
    /\ listener.upload = "accept"
    /\ listener._socket = "open"
    /\ listener' = [listener EXCEPT !.upload = "while", !.polls = (@ + 1) % 2]
    /\ UNCHANGED <<serverVars, client, upload, download, sync, session, inbound,
                   refresh, offline, codec, transfer>>

\* lines 51-52: accept on a socket that stop has closed
ServeOSError ==
    /\ listener.upload = "accept"
    /\ listener._socket # "open"
    /\ listener' = [listener EXCEPT !.upload = "exited"]
    /\ UNCHANGED <<serverVars, client, upload, download, sync, session, inbound,
                   refresh, offline, codec, transfer>>

\* serve_forever, lines 227-236: bind and listen; a failed bind exits
IndexListen(binds) ==
    /\ listener.index = "idle"
    /\ listener' = [listener EXCEPT !.index = IF binds THEN "accept" ELSE "exited"]
    /\ UNCHANGED <<serverVars, client, upload, download, sync, session, inbound,
                   refresh, offline, codec, transfer>>

\* line 240: accept, which has no timeout, returns a connection
IndexAccept ==
    /\ listener.index = "accept"
    /\ listener.index_threads < MaxAccepts
    /\ listener' = [listener EXCEPT !.index = "start"]
    /\ UNCHANGED <<serverVars, client, upload, download, sync, session, inbound,
                   refresh, offline, codec, transfer>>

\* lines 241-242: the thread of handle_client is started
IndexStartThread ==
    /\ listener.index = "start"
    /\ listener' = [listener EXCEPT !.index = "accept", !.index_threads = @ + 1]
    /\ UNCHANGED <<serverVars, client, upload, download, sync, session, inbound,
                   refresh, offline, codec, transfer>>

\* lines 243-246: Ctrl+C, or an exception of accept, ends the loop
IndexInterrupt ==
    /\ listener.index \in {"accept", "start"}
    /\ listener' = [listener EXCEPT !.index = "exited"]
    /\ UNCHANGED <<serverVars, client, upload, download, sync, session, inbound,
                   refresh, offline, codec, transfer>>

NextListener ==
    \/ UploadStart
    \/ UploadStop
    \/ ServeWhile
    \/ ServeAccept
    \/ ServeTimeout
    \/ ServeOSError
    \/ \E binds \in BOOLEAN : IndexListen(binds)
    \/ IndexAccept
    \/ IndexStartThread
    \/ IndexInterrupt

\* the threads run: a step of _serve or serve_forever that stays possible is
\* taken, and a stop that has begun goes on; connections, the call of stop and
\* Ctrl+C may never come
SpecListener ==
    /\ Init
    /\ [][NextListener]_vars
    /\ WF_vars(ServeWhile)
    /\ WF_vars(ServeTimeout)
    /\ WF_vars(ServeOSError)
    /\ WF_vars(IndexStartThread)
    /\ WF_vars(UploadStop /\ listener.stop # "none")


(***************************************************************************)
(* The threads of handle_client run.  SpecWorkers is Spec in which a       *)
(* thread that can go on by itself (a call of the index that can take the  *)
(* lock, the statements under the lock, the response, the finally clause)  *)
(* does go on; what the peers do (connect, send a request, close) may      *)
(* never happen, and recv, which has no timeout, then never returns.       *)
(***************************************************************************)
\* the steps a thread takes without its peer
Worker(c) ==
    \/ Add(c)
    \/ \E ok \in BOOLEAN : AddDone(c, ok)
    \/ \E ok \in BOOLEAN : LookupRfc(c, ok)
    \/ List(c)
    \/ ListStep(c)
    \/ \E ok \in BOOLEAN : ListDone(c, ok)
    \/ Unregister(c)
    \/ \E number \in numbers[c] : UnregisterStep(c, number)
    \/ UnregisterDone(c)
    \/ Close(c)

SpecWorkers == Spec /\ \A c \in Conns : WF_vars(Worker(c))


(***************************************************************************)
(* shared/protocol.py: _serialise followed by parse_message.  SpecCodec    *)
(* encodes a start line, a list of headers and a body without line break   *)
(* and decodes the bytes again.                                            *)
(***************************************************************************)
\* strings without CRLF: empty, with blanks inside, at the ends, with a colon
StartLines ==
    {<<>>, <<"GET", SP, "RFC", SP, "1", SP, PROTOCOL_VERSION>>,
     <<PROTOCOL_VERSION, SP, "200", SP, "OK">>}
HeaderKeys == {<<>>, Str("K"), Str("L"), <<"My", SP, "Key">>, <<"a", COLON, "b">>}
HeaderValues == {<<>>, Str("v"), <<"v", SP, "w">>, <<SP, "v">>, <<"a", COLON, "b">>}
Bodies == {<<>>, <<"x", SP, "y">>, <<SP>>}

RECURSIVE HeaderLists(_)
HeaderLists(n) ==
    IF n = 0 THEN {<<>>}
    ELSE HeaderLists(n - 1)
             \cup {Append(l, <<k, v>>) : l \in {m \in HeaderLists(n - 1) : Len(m) = n - 1},
                                         k \in HeaderKeys, v \in HeaderValues}

\* _serialise, lines 28-31, of a message
Encode ==
    /\ codec.pc = "idle"
    /\ \E start_line \in StartLines, headers \in HeaderLists(MaxHeaders), body \in Bodies :
          codec' = [codec EXCEPT !.pc = "encoded", !.start_line = start_line,
                                 !.headers = headers, !.body = body,
                                 !.raw = _serialise(start_line, headers, body)]
    /\ UNCHANGED <<serverVars, client, upload, download, sync, session, inbound,
                   refresh, offline, listener, transfer>>

\* parse_message, lines 55-71, of the bytes
Decode ==
    /\ codec.pc = "encoded"
    /\ codec' = [codec EXCEPT !.pc = "decoded", !.decoded = parse_message(codec.raw)]
    /\ UNCHANGED <<serverVars, client, upload, download, sync, session, inbound,
                   refresh, offline, listener, transfer>>

NextCodec == Encode \/ Decode

SpecCodec == Init /\ [][NextCodec]_vars


(***************************************************************************)
(* The index server receiving ADD and LOOKUP requests whose resource       *)
(* carries zero, a negative number, a word that is no number, or a         *)
(* positive number, and LIST ALL.  SpecNumbers is Spec with these          *)
(* requests.                                                               *)
(***************************************************************************)
NextNumbers ==
    \E c \in Conns :
        \/ Accept(c)
        \/ /\ pc[c] = "await"
           /\ \E raw \in NumberRequests, ok \in BOOLEAN : RecvRequest(c, raw, ok)
        \/ RecvEnds(c)
        \/ Worker(c)

SpecNumbers == Init /\ [][NextNumbers]_vars


(***************************************************************************)
(* A download between two peers: _download_from_peer sends its GET for RFC *)
(* 1, the PeerUploadServer answers it from its storage with one sendall    *)
(* and closes, and _recv_peer_response reads the bytes in the chunks that  *)
(* recv returns, one chunk a step, cut anywhere between the tokens of the  *)
(* text and between the "\r" and the "\n" of a line end.  SpecTransfer is  *)
(* this download for every stored file of FileContents and every cutting.   *)
(***************************************************************************)
CR == "\r"
LF == "\n"

\* str.encode("utf-8"): the bytes of a text, a line end being two of them
RECURSIVE encode_utf8(_)
encode_utf8(text) ==
    IF text = <<>> THEN <<>>
    ELSE IF Head(text) = CRLF THEN <<CR, LF>> \o encode_utf8(Tail(text))
    ELSE <<Head(text)>> \o encode_utf8(Tail(text))

\* bytes.decode("utf-8"): the text of some bytes; a "\r" not followed by
\* "\n" stays a character of its own
RECURSIVE decode_utf8(_)
decode_utf8(bytes) ==
    IF Len(bytes) < 2 THEN bytes
    ELSE IF bytes[1] = CR /\ bytes[2] = LF
         THEN <<CRLF>> \o decode_utf8(SubSeq(bytes, 3, Len(bytes)))
    ELSE <<bytes[1]>> \o decode_utf8(Tail(bytes))

\* the files rfc_1.txt may be: empty, one line, with a double CRLF inside, at
\* the start and at the end, and with the text of a header before one
FileContents ==
    { <<>>, Content1,
      <<"x", CRLF, CRLF, "y">>,
      <<CRLF, CRLF, "z">>,
      <<"x", CRLF, CRLF>>,
      <<"Content-Length", COLON, SP, "0", CRLF, CRLF, "y">> }

\* the storage of the uploading peer: without rfc_1.txt, or with it
TransferStorages == {<<>>} \cup {<<content>> : content \in FileContents}

\* _download_from_peer, lines 400-404: the GET request
GetRequest(rfc_number, host) ==
    build_request(Str("GET"), <<"RFC", SP>> \o FormatInt(rfc_number),
                  << <<HostH, host>>, <<OSH, OSValue>> >>, <<>>)

\* a changed loop: it ends as soon as the blank line is in the buffer
RecvChunkUntilBlank(t, chunk) ==
    LET buffer == t.buffer \o chunk IN
    IF chunk = <<>> \/ Contains(decode_utf8(buffer), <<CRLF, CRLF>>)
    THEN [t EXCEPT !.pc = "received", !.buffer = buffer]
    ELSE [t EXCEPT !.buffer = buffer]

\* _recv_peer_response, lines 43-63: one pass of the loop with the chunk recv
\* has returned, no bytes when the server has closed.  The bytes "\r\n\r\n"
\* are in the buffer when two line ends follow each other in its text
RecvChunk(t, chunk) ==
    LET buffer == t.buffer \o chunk
        hb == Partition(decode_utf8(buffer), <<CRLF, CRLF>>)
        seen == Contains(decode_utf8(buffer), <<CRLF, CRLF>>)
        more == [t EXCEPT !.buffer = buffer]
        break == [more EXCEPT !.pc = "received"]
    IN
    IF chunk = <<>> THEN [t EXCEPT !.pc = "received"]
    ELSE IF t.content_length = None /\ seen
         THEN LET headers == ParseHeaderLines(Tail(Split(hb[1], <<CRLF>>)), <<>>) IN
              IF headers = ProtocolError
              THEN [more EXCEPT !.pc = "done", !.result = "failure"]
              ELSE LET value == DictGet(headers, ContentLengthH)
                       length == IF value = None \/ ParseInt(value[1]) = None THEN 0
                                 ELSE ParseInt(value[1])[1]
                   IN IF length = 0 \/ ByteLen(hb[2]) >= length THEN break
                      ELSE [more EXCEPT !.content_length = Some(length)]
    ELSE IF t.content_length # None /\ ByteLen(hb[2]) >= t.content_length[1] THEN break
    ELSE more

\* _download_from_peer, lines 400-407, and _handle_client of the uploading
\* peer: the GET is sent and answered
Get(storage) ==
    /\ transfer.pc \in {"idle", "done"}
    /\ LET handled == HandleRequest(GetRequest(1, PeerHost), storage) IN
       transfer' = [NewTransfer EXCEPT
                       !.pc = "recv",
                       !.content = IF storage = <<>> THEN None ELSE Some(storage[1]),
                       !.sent = handled.response,
                       !.wire = encode_utf8(handled.response)]
    /\ UNCHANGED <<serverVars, client, upload, download, sync, session, inbound,
                   refresh, offline, listener, codec>>

\* sock.recv(4096) returns the next n bytes, or none after the last one, and
\* the loop of _recv_peer_response takes them
RecvPeer(n) ==
    /\ transfer.pc = "recv"
    /\ n <= Len(transfer.wire)
    /\ n = 0 <=> transfer.wire = <<>>
    /\ LET chunk == SubSeq(transfer.wire, 1, n)
           rest == SubSeq(transfer.wire, n + 1, Len(transfer.wire))
       IN transfer' = [RecvChunk(transfer, chunk) EXCEPT
                          !.wire = rest,
                          !.midsplit = @ \/ (n > 0 /\ chunk[n] = CR /\ rest # <<>>)]
    /\ UNCHANGED <<serverVars, client, upload, download, sync, session, inbound,
                   refresh, offline, listener, codec>>

\* _recv_peer_response, line 64, _download_from_peer, lines 409-418, and
\* download_specific, lines 357-358: the text is parsed and checked and its
\* body is saved, or an exception leaves download_specific
Save ==
    /\ transfer.pc = "received"
    /\ LET response_text == decode_utf8(transfer.buffer)
           got == _download_from_peer(response_text)
       IN transfer' = IF got.raised
                      THEN [transfer EXCEPT !.pc = "done", !.result = "failure",
                                            !.response_text = response_text]
                      ELSE [transfer EXCEPT !.pc = "done", !.result = "success",
                                            !.response_text = response_text,
                                            !.saved = Some(encode_utf8(got.text))]
    /\ UNCHANGED <<serverVars, client, upload, download, sync, session, inbound,
                   refresh, offline, listener, codec>>

NextTransfer ==
    \/ transfer.pc \in {"idle", "done"} /\ \E storage \in TransferStorages : Get(storage)
    \/ transfer.pc = "recv" /\ \E n \in 0..Len(transfer.wire) : RecvPeer(n)
    \/ Save

SpecTransfer == Init /\ [][NextTransfer]_vars


(***************************************************************************)
(* peer/client.py and server/server.py: one peer whose CentralServerClient *)
(* makes its calls over a connection it opens when it has none, closes the *)
(* connection when a call fails and opens a new one for the next call.     *)
(* The index server handles each request in the thread of its connection   *)
(* and learns of a closed connection when its recv returns no bytes, which *)
(* may be after requests of the newer connection.  SpecReconnect is this   *)
(* peer making up to MaxCalls calls.                                       *)
(***************************************************************************)
\* a connection the server has accepted
NewConn ==
    [state |-> "open",  \* "eof": closed by the client; "closed": finally clause done
     peer |-> None,     \* handle_client's peer_host and peer_port
     added |-> {}]      \* history: <<number, (host, port)>> of the ADDs handled on it

\* _ensure_connection, lines 126-137: the socket there is, or a new connection
EnsureConnection(s) ==
    IF s._socket # 0 THEN s
    ELSE [s EXCEPT !.conns = Append(@, NewConn), !._socket = Len(s.conns) + 1]

\* handle_client, lines 141-214, for one request on connection i, checked as
\* did says: what it does to the index and what the thread remembers
Serve(s, i, did) ==
    LET l == did.locals
        key == <<l.host, l.port>>
        adds == did.reject = None /\ l.method = "add"
        registered == IF did.registers THEN RegisterPeerRfcs(s.peer_rfcs, key)
                      ELSE s.peer_rfcs
    IN [s EXCEPT !.records = IF adds THEN AddRecord(@, l.number, l.title, key) ELSE @,
                 !.peer_rfcs = IF adds THEN AddPeerRfc(registered, key, l.number)
                               ELSE registered,
                 !.conns[i].peer = IF did.registers THEN Some(key) ELSE @,
                 !.conns[i].added = IF adds THEN @ \cup {<<l.number, key>>} ELSE @]

\* _send_request, lines 114-119: the request is answered, or sendall or recv
\* raises and close drops the connection; the server has handled the request
\* of a failed call or has not
Exchange(s, did, answered, handled) ==
    LET served == IF handled THEN Serve(s, s._socket, did) ELSE s IN
    IF answered THEN served
    ELSE [served EXCEPT !._socket = 0, !.conns[s._socket].state = "eof"]

\* _send_request, lines 109-124: one call of add, lookup or list_all
SessionCall(call, answered, handled) ==
    /\ session.calls < MaxCalls
    /\ answered => handled
    /\ session' = Exchange(EnsureConnection([session EXCEPT !.calls = @ + 1]),
                           CallChecked[call], answered, handled)
    /\ UNCHANGED <<serverVars, client, upload, download, sync, inbound,
                   refresh, offline, listener, codec, transfer>>

\* close, lines 163-169, called by the peer when it shuts down
SessionClose ==
    /\ session._socket # 0
    /\ session' = [session EXCEPT !._socket = 0, !.conns[session._socket].state = "eof"]
    /\ UNCHANGED <<serverVars, client, upload, download, sync, inbound,
                   refresh, offline, listener, codec, transfer>>

\* handle_client, lines 141-143 and 215-222: recv returns no bytes on a
\* connection the client has closed, and the finally clause unregisters the
\* peer the connection named
SessionEnds(i) ==
    /\ session.conns[i].state = "eof"
    /\ LET peer == session.conns[i].peer
           after == IF peer # None /\ peer[1][1] # <<>>
                    THEN unregister_peer(session.records, session.peer_rfcs, peer[1])
                    ELSE <<session.records, session.peer_rfcs>>
       IN session' = [session EXCEPT !.conns[i].state = "closed",
                                     !.records = after[1],
                                     !.peer_rfcs = after[2]]
    /\ UNCHANGED <<serverVars, client, upload, download, sync, inbound,
                   refresh, offline, listener, codec, transfer>>

NextReconnect ==
    \/ /\ session.calls < MaxCalls
       /\ \E call \in ApiCalls, answered, handled \in BOOLEAN :
              SessionCall(call, answered, handled)
    \/ SessionClose
    \/ \E i \in DOMAIN session.conns : SessionEnds(i)

SpecReconnect == Init /\ [][NextReconnect]_vars


(***************************************************************************)
(* server/server.py: recv_request and the loop of handle_client on one     *)
(* connection whose peer writes complete requests, the next one before or  *)
(* after the response to the last, while recv returns the bytes written in *)
(* chunks cut anywhere.  SpecInbound is this connection for up to          *)
(* MaxRequests requests.                                                   *)
(***************************************************************************)
\* the requests the peer writes: an ADD and a LIST ALL
InboundRequests ==
    { build_request(Str("ADD"), RFC1, WithTitle(IdA, Str("T1")), <<>>),
      build_request(Str("LIST"), Str("ALL"), IdHeaders(IdA), <<>>) }

\* handle_client, lines 150-214: what becomes of a text checked as did says,
\* the status code of its rejection or the method of the index it is handed to
Answer(did) == IF did.reject # None THEN did.reject[1][3] ELSE did.locals.method

\* the peer writes a request
InboundWrite(request) ==
    /\ Len(inbound.written) < MaxRequests
    /\ inbound' = [inbound EXCEPT !.written = Append(@, request),
                                  !.wire = @ \o encode_utf8(request)]
    /\ UNCHANGED <<serverVars, client, upload, download, sync, session,
                   refresh, offline, listener, codec, transfer>>

\* recv_request, lines 86-97, one pass of its loop, and lines 141-214 when it
\* returns: recv gives the next n bytes, and once the bytes "\r\n\r\n" are in
\* data the whole of data is returned, decoded and handled as one request
InboundRecv(n) ==
    /\ n \in 1..Len(inbound.wire)
    /\ LET data == inbound.data \o SubSeq(inbound.wire, 1, n)
           rest == SubSeq(inbound.wire, n + 1, Len(inbound.wire))
           raw == decode_utf8(data)
       IN inbound' = IF Contains(raw, <<CRLF, CRLF>>)
                     THEN [inbound EXCEPT !.wire = rest, !.data = <<>>,
                                          !.answers = Append(@, Answer(Check(raw)))]
                     ELSE [inbound EXCEPT !.wire = rest, !.data = data]
    /\ UNCHANGED <<serverVars, client, upload, download, sync, session,
                   refresh, offline, listener, codec, transfer>>

NextInbound ==
    \/ /\ Len(inbound.written) < MaxRequests
       /\ \E request \in InboundRequests : InboundWrite(request)
    \/ /\ inbound.wire # <<>>
       /\ \E n \in 1..Len(inbound.wire) : InboundRecv(n)

SpecInbound == Init /\ [][NextInbound]_vars


(***************************************************************************)
(* Properties of the Index Store.                                          *)
(***************************************************************************)
\* every RFC number and every (host, port) the two maps mention
NumbersHeld == DOMAIN records \cup UNION {peer_rfcs[k] : k \in DOMAIN peer_rfcs}
KeysHeld ==
    DOMAIN peer_rfcs \cup UNION {DictKeys(records[n]) : n \in DOMAIN records}

HasEntry(recs, number, key) == number \in DOMAIN recs /\ DictHas(recs[number], key)
Registered(prs, key, number) == key \in DOMAIN prs /\ number \in prs[key]

\* C1: whenever no operation holds the lock, identifier n is in the registration
\* set of peer (h, p) if and only if a Directory Entry keyed (n, h, p) exists.
ForwardReverseAgree ==
    lock = 0 =>
        \A number \in NumbersHeld, key \in KeysHeld :
            Registered(peer_rfcs, key, number) <=> HasEntry(records, number, key)

\* C1's case: the lock is free, every request of the run has been received and
\* a connection has closed; one peer holds an entry, another is registered
\* without any
ForwardReverseWitness ==
    /\ lock = 0
    /\ nreq = MaxRequests
    /\ \E c \in Conns : pc[c] = "closed"
    /\ \E k1, k2 \in DOMAIN peer_rfcs : peer_rfcs[k1] # {} /\ peer_rfcs[k2] = {}

\* C2: lookup(id) returns exactly one entry per distinct (host, port) that has
\* ADDed id (and has not been unregistered since), carrying the title of that
\* peer's most recent ADD of id; re-advertising never creates a second entry.
LookupOnePerAdvertiser ==
    lock = 0 =>
        \A number \in NumbersHeld \cup {k[1] : k \in DOMAIN advertised} :
            LET found == Lookup(records, number) IN
            /\ \A i, j \in 1..Len(found) :
                 i # j => <<found[i].host, found[i].port>> # <<found[j].host, found[j].port>>
            /\ {<<found[i].number, found[i].host, found[i].port, found[i].title>> :
                  i \in 1..Len(found)}
               = {<<k[1], k[2], k[3], advertised[k]>> :
                    k \in {a \in DOMAIN advertised : a[1] = number}}

\* C2's case: a peer re-advertises an RFC under another title; the record it
\* had before the ADD is replaced
LookupReadvertisedWitness ==
    \E c \in Conns :
        /\ pc[c] = "add2"
        /\ LET before == Lookup(snap[c][1], req[c].number)
               after == Lookup(records, req[c].number)
           IN /\ Len(before) = 1 /\ Len(after) = 1
              /\ before[1].host = req[c].host /\ before[1].port = req[c].port
              /\ before[1].title # req[c].title
              /\ after[1].title = req[c].title

\* the (host, port) the thread of connection c unregisters
KeyOf(c) == <<peer_host[c][1], peer_port[c][1]>>

\* the (host, port) pairs of a list of records
RecordKeys(found) == {<<found[i].host, found[i].port>> : i \in 1..Len(found)}

\* the records of a dict of (host, port) -> record whose key is not `key`
RECURSIVE Others(_, _)
Others(entries, key) ==
    IF entries = <<>> THEN <<>>
    ELSE IF Head(entries)[1] = key THEN Others(Tail(entries), key)
    ELSE <<Head(entries)>> \o Others(Tail(entries), key)

\* C3: when unregister_peer(h, p) is about to return, lookup(id) includes (h, p)
\* for no id; an id whose sole advertiser was (h, p) is gone from list_all(); no
\* id is left with an empty entry set; the entries and registrations of all
\* other peers are as they were when the call began; and a call for a peer the
\* index does not know changes nothing.
UnregisterPurges ==
    \A c \in Conns :
        pc[c] = "unregister" /\ numbers[c] = {} =>
            LET key == KeyOf(c)
                before == snap[c][1]
                regs == snap[c][2]
            IN /\ \A n \in DOMAIN before \cup DOMAIN records :
                    key \notin RecordKeys(Lookup(records, n))
               /\ \A n \in DOMAIN before :
                    DictKeys(before[n]) = {key} =>
                        \A i \in 1..Len(list_all(records)) : list_all(records)[i].number # n
               /\ \A n \in DOMAIN records : records[n] # <<>>
               /\ \A n \in DOMAIN before :
                    Others(before[n], key)
                      = IF n \in DOMAIN records THEN records[n] ELSE <<>>
               /\ DOMAIN records \subseteq DOMAIN before
               /\ peer_rfcs = Drop(regs, {key})
               /\ key \notin DOMAIN regs => records = before /\ peer_rfcs = regs

\* C3's case: unregister_peer is about to return after removing the peer's
\* record from an RFC that another peer advertises too
UnregisterPurgesWitness ==
    \E c \in Conns :
        /\ pc[c] = "unregister" /\ numbers[c] = {}
        /\ \E n \in DOMAIN snap[c][1] :
              /\ KeyOf(c) \in DictKeys(snap[c][1][n])
              /\ Len(snap[c][1][n]) = 2
              /\ n \in DOMAIN records /\ Len(records[n]) = 1

\* "" < "a" < "b", the order of the hosts of the model
HostRank(host) == IF host = <<>> THEN 0 ELSE IF host = Str("a") THEN 1 ELSE 2

\* record r comes before record s: by number, then host, then port
Before(r, s) ==
    \/ r.number < s.number
    \/ r.number = s.number /\ HostRank(r.host) < HostRank(s.host)
    \/ r.number = s.number /\ r.host = s.host /\ r.port < s.port

\* the line of a record: RFC <number> <title> <host> <port>
LineOf(r) ==
    <<"RFC", SP, ToString(r.number), SP>> \o r.title \o <<SP>> \o r.host
        \o <<SP, ToString(r.port)>>

\* the lines of the body of a 200 response
BodyLines(message) == Split(SubSeq(message, 8, Len(message) - 2), <<CRLF>>)

\* C8: list_all returns every Directory Entry exactly once, by number
\* ascending and within a number by (host, port) ascending, whatever the order
\* of the adds; the body of the LIST ALL response has the lines in that order.
ListOrdered ==
    [][\A c \in Conns :
          ListDone(c, TRUE) =>
              LET out == all_entries[c] IN
              /\ \A i \in 1..(Len(out) - 1) : Before(out[i], out[i + 1])
              /\ {out[i] : i \in 1..Len(out)}
                   = UNION {{records[n][i][2] : i \in 1..Len(records[n])} : n \in DOMAIN records}
              /\ out # <<>> =>
                   /\ SubSeq(sent', 1, 7) = <<PROTOCOL_VERSION, SP, "200", SP, "OK", CRLF, CRLF>>
                   /\ BodyLines(sent') = [i \in 1..Len(out) |-> LineOf(out[i])]]_vars

\* C8's case: list_all has gone through an index of two RFCs in which the
\* records of one RFC were added in another order than that of (host, port)
ListOrderedWitness ==
    \E c \in Conns :
        /\ pc[c] = "list_loop" /\ keys[c] = <<>>
        /\ Len(all_entries[c]) = MaxAdds
        /\ Cardinality(DOMAIN records) = 2
        /\ \E n \in DOMAIN records :
              /\ Len(records[n]) = 2
              /\ Before(records[n][2][2], records[n][1][2])

\* the response 404 Not Found with an empty body
NotFoundText == <<PROTOCOL_VERSION, SP, "404", SP, "Not", SP, "Found", CRLF, CRLF>>

\* C9: while the directory holds no entry, LOOKUP and LIST ALL are answered
\* 404 with an empty body; every well-formed ADD is answered 200; LOOKUP of an
\* RFC is answered 200 as long as a peer that added it has not been
\* unregistered since, and 404 otherwise.
EmptyAndFirstAdd ==
    [][\A c \in Conns :
          /\ LookupRfc(c, TRUE) =>
                /\ records = <<>> => sent' = NotFoundText
                /\ IF \E k \in DOMAIN advertised : k[1] = req[c].number
                   THEN SubSeq(sent', 1, 5) = <<PROTOCOL_VERSION, SP, "200", SP, "OK">>
                   ELSE sent' = NotFoundText
          /\ ListDone(c, TRUE) /\ snap[c][1] = <<>> => sent' = NotFoundText
          /\ AddDone(c, TRUE) =>
                SubSeq(sent', 1, 5) = <<PROTOCOL_VERSION, SP, "200", SP, "OK">>]_vars

\* C9's case: a request has just been answered 404 with an empty body, the
\* directory holding no entry after a connection closed
EmptyAndFirstAddWitness ==
    /\ sent = NotFoundText
    /\ records = <<>> /\ advertised = <<>>
    /\ nreq = MaxRequests
    /\ \E c \in Conns : pc[c] = "closed"

(***************************************************************************)
(* Properties of the sessions of the index server.                         *)
(***************************************************************************)
\* C4: when a session ends after a request on it passed the Host and Port
\* check, the handler calls unregister_peer for the (host, port) it saw last
\* before it closes the connection, whatever the header values were.
UnregistersOnEnd ==
    [][\A c \in Conns :
          pc[c] = "finally" /\ pc'[c] # "finally"
              /\ peer_host[c] # None /\ peer_port[c] # None
          => /\ pc'[c] = "unregister"
             /\ numbers'[c] = IF KeyOf(c) \in DOMAIN peer_rfcs
                               THEN peer_rfcs[KeyOf(c)] ELSE {}]_vars

\* C5: once the connection of a peer has closed, no record of that peer is left
\* (so that LOOKUP of an RFC only it advertised is answered 404); stated for a
\* connection that named one (host, port) only, which no other open connection
\* has named.
ClosedPeerPurged ==
    [][\A c \in Conns :
          pc[c] # "closed" /\ pc'[c] = "closed" /\ Cardinality(declared[c]) = 1
              /\ (\A d \in Conns \ {c} : declared[d] \cap declared[c] = {})
          => \A n \in DOMAIN records' :
                /\ DictKeys(records'[n]) \cap declared[c] = {}
                /\ \A i \in 1..Len(Lookup(records', n)) :
                     <<Lookup(records', n)[i].host, Lookup(records', n)[i].port>>
                         \notin declared[c]]_vars

\* what is wrong with a request, read off its text, and the (host, port) its
\* Host and Port headers name when both are there and the Port is a number
Flaws(raw) ==
    LET message == parse_message(raw) IN
    IF message = ProtocolError
    THEN [undecodable |-> TRUE, port |-> FALSE, method |-> FALSE, version |-> FALSE,
          peer |-> None, verb |-> <<>>]
    ELSE LET line == parse_request_line(message[1]) IN
         IF line = ProtocolError
         THEN [undecodable |-> TRUE, port |-> FALSE, method |-> FALSE, version |-> FALSE,
          peer |-> None, verb |-> <<>>]
         ELSE [undecodable |-> FALSE,
               port |-> /\ DictHas(message[2], PortH)
                        /\ ParseInt(DictGet(message[2], PortH)[1]) = None,
               method |-> line[1] \notin {Str("ADD"), Str("LOOKUP"), Str("LIST")},
               version |-> line[3] # Str(PROTOCOL_VERSION),
               peer |-> IF /\ DictHas(message[2], HostH) /\ DictHas(message[2], PortH)
                           /\ ParseInt(DictGet(message[2], PortH)[1]) # None
                        THEN Some(<<DictGet(message[2], HostH)[1],
                                    ParseInt(DictGet(message[2], PortH)[1])[1]>>)
                        ELSE None,
               verb |-> line[1]]
Flawed == [raw \in Requests |-> Flaws(raw)]

\* the requests C6 calls malformed
Malformed == {raw \in Requests :
                Flawed[raw].undecodable \/ Flawed[raw].port \/ Flawed[raw].method}

\* C6 as stated: a message that does not decode, a non-numeric Port or an
\* unknown method is answered 400 and leaves both maps of the index as they were
MalformedLeavesIndex ==
    [][\A c \in Conns, raw \in Malformed :
          RecvRequest(c, raw, TRUE)
          => sent' = BadRequest /\ records' = records /\ peer_rfcs' = peer_rfcs]_vars

\* C6, amended: such a request is answered 505 when it decodes and names another
\* version, else 400; the Directory Entries and the registration sets of the
\* peers already registered stay as they were; the one change it can make is
\* that a request whose only flaw is its method registers its (host, port),
\* with an empty set, when the index does not know that peer yet.
MalformedRejected ==
    [][\A c \in Conns, raw \in Malformed :
          RecvRequest(c, raw, TRUE)
          => /\ sent' = IF Flawed[raw].version THEN VersionNotSupported ELSE BadRequest
             /\ records' = records
             /\ \A key \in DOMAIN peer_rfcs :
                   key \in DOMAIN peer_rfcs' /\ peer_rfcs'[key] = peer_rfcs[key]
             /\ \A key \in DOMAIN peer_rfcs' \ DOMAIN peer_rfcs :
                   /\ peer_rfcs'[key] = {}
                   /\ ~Flawed[raw].undecodable /\ ~Flawed[raw].port
                   /\ ~Flawed[raw].version
                   /\ key = <<peer_host'[c][1], peer_port'[c][1]>>]_vars

\* C6's case: a request with an unknown method has just been answered 400 and
\* has registered its peer, while another peer holds an entry
MalformedRejectedWitness ==
    /\ sent = BadRequest
    /\ <<IdC[1], 2>> \in DOMAIN peer_rfcs
    /\ records # <<>>
    /\ nreq = MaxRequests

\* the threads that are inside a `with self._lock:` block of several steps
Inside == {c \in Conns : pc[c] \in {"add2", "list_loop", "unregister"}}

\* C7: each operation of the index takes effect at one point. At most one thread
\* is inside the lock; while a thread is inside, the maps are those it found,
\* changed by its own steps alone; add, list_all and unregister_peer end with
\* the maps and the result an uninterrupted run from the maps found would give.
\* lookup and register_peer are single steps taken with the lock free, so they
\* see the maps between two whole operations.
Linearizable ==
    /\ \A c, d \in Inside : c = d
    /\ lock = 0 <=> Inside = {}
    /\ \A c \in Inside :
         LET before == snap[c][1]
             regs == snap[c][2]
         IN /\ lock = c
            /\ pc[c] = "add2" =>
                 /\ records = AddRecord(before, req[c].number, req[c].title,
                                        <<req[c].host, req[c].port>>)
                 /\ peer_rfcs = regs
            /\ pc[c] = "list_loop" =>
                 /\ records = before /\ peer_rfcs = regs
                 /\ ListFrom(all_entries[c], records, keys[c]) = list_all(before)
            /\ pc[c] = "unregister" =>
                 /\ peer_rfcs = Drop(regs, {KeyOf(c)})
                 /\ <<RemoveRecords(records, numbers[c], KeyOf(c)), peer_rfcs>>
                      = unregister_peer(before, regs, KeyOf(c))

\* C7's case: an ADD is between its two writes while a LOOKUP of the same RFC
\* on another connection waits for the lock
LinearizableWitness ==
    \E c, d \in Conns :
        /\ pc[c] = "add2" /\ pc[d] = "lookup"
        /\ req[d].number = req[c].number

\* a step of connection c in which sendall raises
SendFails(c) ==
    \/ \E raw \in Requests : RecvRequest(c, raw, FALSE)
    \/ AddDone(c, FALSE)
    \/ LookupRfc(c, FALSE)
    \/ ListDone(c, FALSE)

\* C10: every response, 400, 404 and 505 included, leaves the session waiting
\* for the next request; a well-formed request is handed to the index with
\* the values of its text alone, whatever the connection carried before; the
\* session leaves the loop only when recv returns no bytes or an error escapes
\* the loop.
SessionSurvives ==
    [][\A c \in Conns :
          /\ sent' # <<>> /\ pc'[c] # pc[c] => pc'[c] = "await"
          /\ sent' \in {BadRequest, NotFound, VersionNotSupported} =>
                pc'[c] \in {pc[c], "await"}
          /\ pc[c] = "await" /\ pc'[c] \in {"add", "lookup", "list"} =>
                \A raw \in AddRequests \cup LookupRequests \cup ListRequests :
                    LET did == Checked[raw] IN
                    RecvRequest(c, raw, TRUE) =>
                        /\ pc'[c] = did.locals.method /\ req'[c] = did.locals
                        /\ sent' = <<>> /\ records' = records
                        /\ peer_rfcs' = RegisterPeerRfcs(peer_rfcs,
                                          <<did.locals.host, did.locals.port>>)
          /\ pc[c] \in InLoop /\ pc'[c] \notin InLoop =>
                pc'[c] = "finally" /\ (RecvEnds(c) \/ SendFails(c))]_vars

\* C10's case: a connection whose first request was answered 400 for its
\* method is handling a well-formed ADD
SessionSurvivesWitness ==
    \E c \in Conns :
        /\ pc[c] = "add"
        /\ <<IdC[1], 2>> \in DOMAIN peer_rfcs
        /\ \A d \in Conns \ {c} : pc[d] = "idle"

\* the requests of the supported version with a Host and a numeric Port
Identified == {raw \in Requests :
                 /\ ~Flawed[raw].undecodable /\ ~Flawed[raw].version
                 /\ Flawed[raw].peer # None}

\* the peers those requests name, and the requests naming each
IdentifiedKeys == {Flawed[raw].peer[1] : raw \in Identified}
IdentifiedBy == [key \in IdentifiedKeys |->
                    {raw \in Identified : Flawed[raw].peer[1] = key}]

\* a step registers key for connection c and leaves the rest of the index alone
RegistersPeer(c, key) ==
    /\ DOMAIN peer_rfcs' = DOMAIN peer_rfcs \cup {key}
    /\ \A k \in DOMAIN peer_rfcs : peer_rfcs'[k] = peer_rfcs[k]
    /\ key \notin DOMAIN peer_rfcs => peer_rfcs'[key] = {}
    /\ records' = records
    /\ peer_host'[c] = Some(key[1]) /\ peer_port'[c] = Some(key[2])

\* C11: a request of the supported version with a Host and a numeric Port
\* registers its (host, port) in the step that receives it, before the index
\* is called for the method, whatever the method and whether or not the
\* method's own checks pass or the response can be sent; the registration sets
\* of the peers already registered, its own included, stay as they were.
\* (Stated by contraposition: a step that does not register a peer is not the
\* receipt of a request naming it; the send succeeded unless the handler left
\* for its finally clause.)
RegistersBeforeDispatch ==
    [][nreq' # nreq =>
          \A c \in Conns, key \in IdentifiedKeys :
              pc[c] = "await" /\ ~RegistersPeer(c, key) =>
                  \A raw \in IdentifiedBy[key] :
                      ~RecvRequest(c, raw, pc'[c] # "finally")]_vars

\* C11's case: a LOOKUP has registered its peer, which holds no entry, and
\* waits for the index while another peer holds one
RegistersBeforeDispatchWitness ==
    \E c \in Conns :
        /\ pc[c] = "lookup"
        /\ KeyOf(c) \in DOMAIN peer_rfcs /\ peer_rfcs[KeyOf(c)] = {}
        /\ records # <<>>

\* the state of the handler after the checks of a request that passes them
Goes == [verb \in {Str("ADD"), Str("LOOKUP"), Str("LIST")} |->
            IF verb = Str("ADD") THEN "add"
            ELSE IF verb = Str("LOOKUP") THEN "lookup" ELSE "list"]

\* the status code of a response text, "" when nothing was sent
StatusOf(message) == IF Len(message) >= 3 THEN message[3] ELSE ""

\* what the receipt of a request may lead to when the response can be sent: a
\* status, or the index call of its method
Allowed == [raw \in Requests |->
               LET flaws == Flawed[raw] IN
               IF flaws.undecodable THEN {"400"}
               ELSE IF flaws.version THEN {"505"}
               ELSE IF flaws.peer = None \/ flaws.method THEN {"400"}
               ELSE {"400", Goes[flaws.verb]}]
Outcomes == {"", "200", "400", "404", "500", "505", "idle", "await", "add", "add2",
             "lookup", "list", "list_loop", "finally", "unregister", "closed"}
NotAllowing == [outcome \in Outcomes |-> {raw \in Requests : outcome \notin Allowed[raw]}]

\* C12: the status of a response is decided by the request and the index. A
\* message that does not decode is answered 400; one that decodes with another
\* version 505, whatever its headers and method; one without Host, without
\* Port or with a Port that is no number 400; an unknown method 400; ADD is
\* answered 400 or 200, LOOKUP and LIST 400, 404 or 200; no response has a
\* status other than 200, 400, 404 and 505. (For the receipt of a request,
\* stated by contraposition: a step whose outcome a request does not allow is
\* not the receipt of that request.)
StatusByRequest ==
    [][/\ sent' # <<>> =>
            /\ SubSeq(sent', 1, 2) = <<PROTOCOL_VERSION, SP>>
            /\ StatusOf(sent') \in {"200", "400", "404", "505"}
       /\ \A c \in Conns :
            /\ AddDone(c, TRUE) => StatusOf(sent') = "200"
            /\ LookupRfc(c, TRUE) \/ ListDone(c, TRUE) => StatusOf(sent') \in {"200", "404"}
            /\ nreq' # nreq /\ pc[c] = "await" /\ (sent' # <<>> \/ pc'[c] # pc[c]) =>
                 \A raw \in NotAllowing[IF sent' # <<>> THEN StatusOf(sent') ELSE pc'[c]] :
                     ~RecvRequest(c, raw, TRUE)]_vars

\* C12's case: a request of another version whose Port is no number, or whose
\* method is unknown, has just been answered 505
StatusByRequestWitness ==
    /\ sent = <<PROTOCOL_VERSION, SP, "505", SP, "P2P-CI", SP, "Version", SP, "Not", SP,
                "Supported", CRLF, CRLF>>
    /\ records # <<>>
    /\ nreq = MaxRequests

(***************************************************************************)
(* Properties of the Directory Client.                                     *)
(***************************************************************************)
\* C13: the client holds at most one connection, the one self._socket names,
\* and none before its first call; a socket is created only by a call made
\* without one, and is a new one; a call made with a socket uses that socket; a
\* socket is given up only by close or by a call that fails with a
\* connectivity error, and after a call failed with that error no socket is held.
OneConnection ==
    /\ [](/\ Cardinality(client.open) <= 1
          /\ client.open = IF client._socket = 0 THEN {} ELSE {client._socket}
          /\ client.calls = 0 => client.created = 0
          /\ client.result.kind = "ConnectionError" /\ client.pc = "idle"
                 => client._socket = 0)
    /\ [][/\ client'.created # client.created =>
                /\ client._socket = 0 /\ client'.calls = client.calls + 1
                /\ client'.created = client.created + 1
                /\ client'._socket \in {0, client'.created}
          /\ client._socket # 0 =>
                /\ client'._socket \in {0, client._socket}
                /\ client'._socket = 0 /\ ~ClientClose =>
                       client'.result.kind = "ConnectionError" /\ client'.pc = "idle"
          /\ RecvFails \/ (\E response \in ServerResponses :
                               SendRequest(TRUE, FALSE, response)) =>
                /\ client'._socket = 0 /\ client'.open = {}
                /\ client'.result.kind = "ConnectionError"]_vars

\* C13's case: the first call opened a socket and failed on it with a
\* connectivity error; the second call has opened the second socket
OneConnectionWitness ==
    /\ client.calls = 2 /\ client.created = 2 /\ client._socket = 2
    /\ client.pc = "recv" /\ client.result.kind = "ConnectionError"

\* C14: a call that returns a response returns the message the server wrote
\* for it, status line and body lines, and leaves nothing of it on the wire,
\* however recv cuts the bytes into pieces
FramingExact ==
    [][client.pc = "recv" /\ client'.pc = "idle"
           /\ client'.result.kind # "ConnectionError" =>
               /\ client'.result.kind = "response"
               /\ client'.result.raw = client.reply
               /\ client'.wire = <<>>]_vars

(***************************************************************************)
(* Properties of the Upload Handler.                                       *)
(***************************************************************************)
\* the status the first failing check gives a request, read off the set the
\* request was taken from; RFC 2 is in no storage of the model
ExpectedStatus(text, storage) ==
    IF text \in UndecodableGets THEN 400
    ELSE IF text \in VersionGets THEN 505
    ELSE IF text \in MethodGets \cup HeaderGets \cup ResourceGets THEN 400
    ELSE IF text \in AbsentGets THEN 404
    ELSE IF 1 \in DOMAIN storage THEN 200 ELSE 404

\* C16: a request received whole is answered with exactly one response and the
\* connection is closed, with nothing sent on it afterwards; the status is
\* that of the first failing check: 505 for another version (whatever the
\* method, the headers and the resource), 400 for a method other than GET, 400
\* without Host or OS, 400 for a resource that is not RFC and an integer, 404
\* for a file the storage does not hold, else 200 with the file as body and
\* its byte length as Content-Length. An error response has no body.
UploadAnswers ==
    /\ [](upload.pc = "closed" => Len(upload.responses) <= 1)
    /\ [][/\ upload.pc = "closed" => upload'.pc = "recv" /\ upload'.responses = <<>>
          /\ upload.pc = "recv" /\ upload'.pc = "closed"
                 /\ Contains(upload'.data, <<CRLF, CRLF>>) =>
               /\ Len(upload'.responses) = 1
               /\ LET message == parse_message(upload'.responses[1])
                      status == parse_status_line(message[1])[2]
                  IN /\ status = ExpectedStatus(upload'.data, upload.storage)
                     /\ DictHas(message[2], ContentLengthH)
                     /\ IF status = 200
                        THEN /\ message[3] = upload.storage[1]
                             /\ ParseInt(DictGet(message[2], ContentLengthH)[1])
                                    = Some(ByteLen(upload.storage[1]))
                        ELSE /\ message[3] = <<>>
                             /\ ParseInt(DictGet(message[2], ContentLengthH)[1]) = Some(0)]_vars

\* C16's case: a request with another version and a method other than GET has
\* been answered 505 and the connection is closed
UploadAnswersWitness ==
    /\ upload.pc = "closed"
    /\ upload.data = _serialise(<<"ADD", SP, "RFC", SP, "1", SP, V2>>, GetHeaders, <<>>)
    /\ upload.responses
           = <<_send_error(505, <<"P2P-CI", SP, "Version", SP, "Not", SP, "Supported">>)>>

\* C17: when the remote side closes before a double CRLF was received, be it
\* after no byte or after part of a request, the handler sends nothing and
\* does not look at the storage
SilentOnEarlyClose ==
    [][UploadRecvEmpty => upload'.responses = <<>> /\ ~upload'.touched]_vars

(***************************************************************************)
(* Properties of the download.                                             *)
(***************************************************************************)
\* C15: a fetch succeeds, and the file is written, only when the response
\* received has status 200 and a Content-Length header equal to the byte
\* length of the body received
FetchChecked ==
    [][download.pc = "connect"
           /\ (download'.pc = "add" \/ download'.storage # download.storage) =>
               LET message == parse_message(download'.response_text) IN
               /\ message # ProtocolError
               /\ parse_status_line(message[1])[2] = 200
               /\ DictHas(message[2], ContentLengthH)
               /\ ParseInt(DictGet(message[2], ContentLengthH)[1])
                      = Some(ByteLen(message[3]))]_vars

\* C18: the candidates are tried in the order of the list, none twice and the
\* node's own location never; while one is tried, and when one has succeeded,
\* exactly the candidates before it have failed and none after it has been
\* contacted; the download fails exactly when every candidate of the list has
\* failed, which for the empty list is at once.
FallbackInOrder ==
    LET d == download
        reached == {d.contacted[a] : a \in 1..Len(d.contacted)}
    IN
    /\ \A a, b \in 1..Len(d.contacted) : a < b => d.contacted[a] < d.contacted[b]
    /\ \A j \in reached : j \in 1..Len(d.peers) /\ d.peers[j] # Self
    /\ \A j \in d.failed : d.peers[j] # Self => j \in reached
    /\ d.pc = "connect" => d.failed = 1..(d.i - 1) /\ reached \subseteq 1..(d.i - 1)
    /\ d.pc = "add" => d.failed = 1..(d.i - 1) /\ reached \subseteq 1..d.i /\ d.i \in reached
    /\ d.pc = "done" =>
          \/ /\ d.result = "success"
             /\ d.source \in 1..Len(d.peers)
             /\ d.failed = 1..(d.source - 1)
             /\ reached \subseteq 1..d.source
          \/ /\ d.result = "failure"
             /\ d.failed = 1..Len(d.peers)

\* C18's case: the first of two candidates failed, the second was contacted
\* and succeeded
FallbackInOrderWitness ==
    /\ download.pc = "done" /\ download.result = "success"
    /\ download.peers = <<"p", "q">>
    /\ download.contacted = <<1, 2>> /\ download.failed = {1} /\ download.source = 2

\* C19: once the file is fetched and stored, the re-ADD, however it ends,
\* leaves the download successful with this candidate, the file stored and
\* the later candidates alone
RegistrationNotFatal ==
    [][download.pc = "add" =>
          /\ download'.pc = "done" /\ download'.result = "success"
          /\ download'.source = download.i
          /\ download'.storage = download.storage
          /\ download'.contacted = download.contacted]_vars

(***************************************************************************)
(* Properties of sync.                                                     *)
(***************************************************************************)
\* the positions of the files whose name gives a number
Numbered(files) == {j \in 1..Len(files) : files[j].stem[Len(files[j].stem)] \in {"1", "2"}}

RECURSIVE Refreshed(_, _, _)
Refreshed(r, n, k) ==
    IF k = 0 THEN r.before[n]
    ELSE IF r.entries[r.fetched[k].i].number = n /\ ~r.fetched[k].raised
         THEN r.fetched[k].body
         ELSE Refreshed(r, n, k - 1)

\* C21: lookup_rfc and list_index fetch only for returned entries whose file
\* is in the local store and whose advertiser is not the node itself, and
\* only after a 200 of a client that is not offline; no file is created; a
\* local file holds the body of the last fetch for it that did not fail and
\* is unchanged when there is none; a call answered 200 returns
RefreshFrame ==
    /\ DOMAIN refresh.storage = DOMAIN refresh.before
    /\ \A k \in 1..Len(refresh.fetched) :
          LET entry == refresh.entries[refresh.fetched[k].i] IN
          /\ entry.number \in DOMAIN refresh.before
          /\ <<entry.host, entry.port>> # <<PeerHost, PeerPort>>
          /\ ~refresh.offline
          /\ refresh.status = 200
    /\ \A n \in DOMAIN refresh.storage :
          refresh.storage[n] = Refreshed(refresh, n, Len(refresh.fetched))
    /\ (refresh.offline \/ refresh.status = 404) =>
          refresh.fetched = <<>> /\ refresh.storage = refresh.before
    /\ (refresh.pc = "done" /\ refresh.status \in {200, 404}) => refresh.result = "returned"

\* a list call answered with an entry of the node itself, an entry whose fetch
\* fails and an entry whose fetch succeeds has returned
RefreshFrameWitness ==
    /\ refresh.pc = "done"
    /\ refresh.result = "returned"
    /\ Len(refresh.entries) = 3
    /\ refresh.entries[1].host = PeerHost /\ refresh.entries[1].port = PeerPort
    /\ refresh.entries[1].number \in DOMAIN refresh.before
    /\ Len(refresh.fetched) = 2
    /\ refresh.fetched[1].raised
    /\ ~refresh.fetched[2].raised
    /\ refresh.storage # refresh.before

(***************************************************************************)
(* Properties of the offline backend.                                      *)
(***************************************************************************)
\* the entry lines of a response body
EntryLines(body) == {line \in
                        {Split(Strip(body), <<CRLF>>)[i] :
                            i \in 1..Len(Split(Strip(body), <<CRLF>>))} : line # <<>>}

\* C22: after every call the offline client has returned the status code and
\* the entry lines the client of the live index server has returned
OfflineEquivalent ==
    offline.pc = "called" =>
        /\ offline.response.status_code = offline.live.status_code
        /\ EntryLines(offline.response.body) = EntryLines(offline.live.body)

(***************************************************************************)
(* Properties of the accept loops.                                         *)
(***************************************************************************)
\* every wait of _serve in accept ends, and once stop has set the flag or
\* closed the socket _serve ends
UploadResponsive ==
    /\ (listener.upload = "accept") ~> (listener.upload # "accept")
    /\ (listener._shutdown \/ listener._socket = "closed") ~> (listener.upload = "exited")

\* every wait of serve_forever in accept ends
IndexResponsive ==
    (listener.index = "accept") ~> (listener.index # "accept")

\* C23: the accept loop of each of the two servers waits for a connection
\* for a bounded time only and then tests its shutdown condition again, so
\* that it ends after a shutdown even if no connection arrives
AcceptLoopsResponsive == UploadResponsive /\ IndexResponsive

(***************************************************************************)
(* Properties of the workers.                                              *)
(***************************************************************************)
\* C24: a thread of the index server that waits in recv_request for a peer
\* that neither completes a request nor closes the connection gives up the
\* read after a bounded time
StalledWorkerEnds ==
    \A c \in Conns : (pc[c] = "await") ~> (pc[c] # "await")

(***************************************************************************)
(* Properties of the Framer.                                               *)
(***************************************************************************)
\* the header list is what a decoder returns: the keys are distinct and
\* without colon, keys and values have no blank at either end
Trimmed(headers) ==
    /\ \A i, j \in 1..Len(headers) : headers[i][1] = headers[j][1] => i = j
    /\ \A i \in 1..Len(headers) :
          /\ ~Contains(headers[i][1], <<COLON>>)
          /\ Strip(headers[i][1]) = headers[i][1]
          /\ Strip(headers[i][2]) = headers[i][2]

\* C25 as stated: decoding the encoding of a start line, a list of headers
\* and a body, none with a line break, returns the three
RoundTrip ==
    codec.pc = "decoded" =>
        /\ codec.decoded # ProtocolError
        /\ codec.decoded = <<codec.start_line, codec.headers, codec.body>>

\* C25, amended: it returns the three when the keys of the headers are
\* distinct and without colon and no key or value begins or ends with a blank
RoundTripTrimmed ==
    (codec.pc = "decoded" /\ Trimmed(codec.headers)) =>
        /\ codec.decoded # ProtocolError
        /\ codec.decoded = <<codec.start_line, codec.headers, codec.body>>

\* a message with two headers, blanks inside a key and a value, and a body
\* has been decoded
RoundTripTrimmedWitness ==
    /\ codec.pc = "decoded"
    /\ Len(codec.headers) = 2
    /\ Trimmed(codec.headers)
    /\ codec.headers[1][1] = <<"My", SP, "Key">>
    /\ codec.headers[2][2] = <<"v", SP, "w">>
    /\ codec.body = <<"x", SP, "y">>
    /\ codec.start_line # <<>>

(***************************************************************************)
(* Properties of the identifiers.                                          *)
(***************************************************************************)
\* C26: every RFC number in the index is a positive integer
PositiveIdentifiers ==
    /\ \A number \in DOMAIN records : number > 0
    /\ \A key \in DOMAIN peer_rfcs : \A number \in peer_rfcs[key] : number > 0

(***************************************************************************)
(* Properties of a connection that names several peers.                    *)
(***************************************************************************)
\* the records of the peer key, by number
RecordsOfPeer(recs, key) ==
    [n \in {m \in DOMAIN recs : DictHas(recs[m], key)} |-> DictGet(recs[n], key)]

\* the (host, port) the handler saw last, if any
LastDeclared(c) ==
    IF peer_host[c] = None \/ peer_port[c] = None THEN {} ELSE {KeyOf(c)}

\* C27: in the finally clause of a connection no step changes the
\* registration set or a record of a (host, port) other than the one the
\* connection declared last, and when unregister_peer returns that one has
\* no registration set and no record
UnregistersLastOnly ==
    [][\A c \in Conns :
          pc[c] \in {"finally", "unregister"}
              /\ (pc'[c] # pc[c] \/ numbers'[c] # numbers[c])
          => /\ \A key \in (DOMAIN peer_rfcs \cup declared[c]) \ LastDeclared(c) :
                   /\ key \in DOMAIN peer_rfcs =>
                         key \in DOMAIN peer_rfcs' /\ peer_rfcs'[key] = peer_rfcs[key]
                   /\ key \notin DOMAIN peer_rfcs => key \notin DOMAIN peer_rfcs'
                   /\ RecordsOfPeer(records', key) = RecordsOfPeer(records, key)
             /\ pc[c] = "unregister" /\ pc'[c] = "closed" =>
                   \A key \in LastDeclared(c) :
                       /\ key \notin DOMAIN peer_rfcs'
                       /\ RecordsOfPeer(records', key) = <<>>]_vars

\* unregister_peer has removed the records of the pair a connection declared
\* last, and the pair it declared before still has its registration set and
\* its record
UnregistersLastOnlyWitness ==
    \E c \in Conns :
        /\ pc[c] = "unregister"
        /\ numbers[c] = {}
        /\ snap[c] # <<>>
        /\ KeyOf(c) \in DOMAIN snap[c][2]
        /\ snap[c][2][KeyOf(c)] # {}
        /\ \E key \in declared[c] \ {KeyOf(c)} :
              /\ key \in DOMAIN peer_rfcs
              /\ peer_rfcs[key] # {}
              /\ RecordsOfPeer(records, key) # <<>>

(***************************************************************************)
(* Properties of the lock.                                                 *)
(***************************************************************************)
\* the thread has called a method of the index, or is inside it
Requesting(c) == pc[c] \in {"add", "add2", "lookup", "list", "list_loop", "unregister"}

\* C28: the lock is held only by a thread inside a method of the index,
\* never by one that waits in recv or has ended; and no thread stays for ever
\* in a call of the index or in its finally clause, whatever the other
\* threads and the peers do: again and again no thread is in either
NoStall ==
    /\ [](\A c \in Conns : lock = c => pc[c] \in {"add2", "list_loop", "unregister"})
    /\ [](lock \in Conns \cup {0})
    /\ []<>(\A c \in Conns : ~Requesting(c) /\ pc[c] # "finally")

\* a thread has called add while another is inside list_all and holds the
\* lock
NoStallWitness ==
    \E c, d \in Conns :
        /\ c # d
        /\ pc[c] = "add"
        /\ lock = d
        /\ pc[d] = "list_loop"

(***************************************************************************)
(* C29: on either server an unexpected failure while a connection is       *)
(* handled is caught at the boundary of the handler and answered with a    *)
(* 500 response on that connection.  For the index server: a step in which *)
(* an error escapes the loop of handle_client (sendall raises) writes a    *)
(* 500 response.  handle_client has a finally clause and no except clause, *)
(* so the step writes nothing.                                             *)
(***************************************************************************)
FailureAnswered ==
    [][\A c \in Conns : SendFails(c) => StatusOf(sent') = "500"]_vars

(***************************************************************************)
(* C30: a GET that the upload handler answers 200 and that the fetch       *)
(* client reads, however recv cuts the bytes of the response and also when *)
(* the file holds a double CRLF, ends in success: the body is the stored   *)
(* content, its byte length is the value of Content-Length, and the bytes  *)
(* saved are the bytes of the source.                                      *)
(***************************************************************************)
Answered200 == transfer.pc = "done" /\ StatusOf(transfer.sent) = "200"

FetchedIdentical ==
    Answered200 =>
        /\ transfer.result = "success"
        /\ transfer.content # None
        /\ LET message == parse_message(transfer.response_text) IN
           /\ message # ProtocolError
           /\ message[3] = transfer.content[1]
           /\ DictGet(message[2], ContentLengthH) = Some(FormatInt(ByteLen(message[3])))
        /\ transfer.saved = Some(encode_utf8(transfer.content[1]))

FetchedIdenticalWitness ==
    /\ Answered200
    /\ transfer.midsplit
    /\ Contains(transfer.content[1], <<CRLF, CRLF>>)
    /\ transfer.saved = Some(encode_utf8(transfer.content[1]))

(***************************************************************************)
(* C31: in download_from_peers a candidate that is the node itself succeeds *)
(* at once, without a fetch and without an ADD, when the file is stored;   *)
(* when it is not stored the candidate is fetched from like every other    *)
(* one, so a position of the node itself that has failed has been          *)
(* contacted.  The loop leaves such a position with `continue`, never      *)
(* connecting.                                                             *)
(***************************************************************************)
SelfCandidateFetched ==
    LET d == download
        reached == {d.contacted[a] : a \in 1..Len(d.contacted)}
    IN
    /\ d.pc = "done" /\ d.result = "success" /\ d.peers[d.source] = Self =>
          /\ d.source \notin reached
          /\ 1 \in DOMAIN d.storage
    /\ \A j \in d.failed : d.peers[j] = Self => j \in reached

(***************************************************************************)
(* C32: a record a peer has added over a connection stays in the index as  *)
(* long as that connection is open, whatever becomes of the other          *)
(* connections, an older connection of the same peer that the client has   *)
(* dropped and whose end the server handles later included.                *)
(* unregister_peer removes by (host, port), so the finally clause of the   *)
(* older connection removes the records of the newer one.                  *)
(***************************************************************************)
AddedStaysWhileOpen ==
    \A i \in DOMAIN session.conns :
        session.conns[i].state = "open" =>
            \A a \in session.conns[i].added :
                /\ a[1] \in DOMAIN session.records
                /\ DictHas(session.records[a[1]], a[2])

(***************************************************************************)
(* C33: every request written on a connection gets one response, in the    *)
(* order written, however recv groups the bytes: the i-th text handled is  *)
(* the i-th request written, and when no written byte is left every        *)
(* request has been handled.  recv_request returns all it has received     *)
(* once a blank line is among it, so a request that arrives with the one   *)
(* before it is taken for its body and never answered.                     *)
(***************************************************************************)
EveryRequestAnswered ==
    /\ Len(inbound.answers) <= Len(inbound.written)
    /\ \A i \in 1..Len(inbound.answers) :
           i <= Len(inbound.written) /\ inbound.answers[i] = Answer(Checked[inbound.written[i]])
    /\ inbound.wire = <<>> /\ inbound.data = <<>> =>
           Len(inbound.answers) = Len(inbound.written)

(***************************************************************************)
(* C34: a request that is rejected before its Host and Port have passed    *)
(* the check (it does not decode, names another version, lacks Host or     *)
(* Port, or its Port is no number) leaves peer_host and peer_port of the   *)
(* thread as they were; so the finally clause unregisters the peer of the  *)
(* last request that passed the check, and calls unregister_peer for       *)
(* nobody and leaves the index alone when no request ever passed it.       *)
(* (The first part by contraposition: a step that changes peer_host or     *)
(* peer_port is not the receipt of such a request.)                        *)
(***************************************************************************)
RejectedKeepsPeer ==
    [][\A c \in Conns :
          /\ /\ nreq' # nreq /\ pc[c] = "await"
             /\ (peer_host'[c] # peer_host[c] \/ peer_port'[c] # peer_port[c])
             => \A raw \in Requests \ Identified :
                    ~RecvRequest(c, raw, pc'[c] # "finally")
          /\ pc[c] = "finally" /\ pc'[c] # pc[c] =>
                IF LastDeclared(c) # {}
                THEN pc'[c] = "unregister"
                ELSE pc'[c] = "closed" /\ records' = records /\ peer_rfcs' = peer_rfcs
          /\ pc[c] = "unregister" /\ pc'[c] = "closed" =>
                \A key \in LastDeclared(c) :
                    key \notin DOMAIN peer_rfcs' /\ RecordsOfPeer(records', key) = <<>>]_vars
====
